---- MODULE Spec2Model ----
(***************************************************************************)
(* A model of the content-acquisition layer of north2md:                   *)
(*   - the resumable, digest-verified file download of gofile.go           *)
(*     (downloadFile and everything it calls),                             *)
(*   - the bounded retry of fetcher.go (FetchWithRetry),                   *)
(*   - the page worker pool of fetcher.go (fetchPagesConcurrently).        *)
(* Each part has its own specification; the variables of the other parts   *)
(* stay at their initial value.  Local file-system calls are taken to      *)
(* succeed; the remote server is free to answer anything.                  *)
(***************************************************************************)
EXTENDS Integers, Sequences, FiniteSets, TLC

\* ------------------------------------------------------------------------
\* Bounds of the model
\* ------------------------------------------------------------------------
MaxRetriesBound == 2
MaxCalls == 2

\* ------------------------------------------------------------------------
\* Byte strings: sequences of one-character strings
\* ------------------------------------------------------------------------
Empty == << >>
S_a == <<"a">>
S_b == <<"b">>
S_ab == <<"a", "b">>
S_ac == <<"a", "c">>
S_html == <<"<", "h", "t", "m", "l", ">">>
S_HtmlUpperWs == <<" ", "<", "H", "T", "M", "L">>
S_doctype == <<"\n", "<", "!", "D", "O", "C", "T", "Y", "P", "E", " ", "h", "t", "m", "l">>
S_htm == <<"<", "h", "t", "m">>
CT_none == << >>
CT_html == <<"t", "e", "x", "t", "/", "h", "t", "m", "l", ";", " ", "q">>
CT_HTML == <<"T", "e", "x", "t", "/", "H", "T", "M", "L">>
CT_bin == <<"a", "/", "b">>
S_texthtml == <<"t", "e", "x", "t", "/", "h", "t", "m", "l">>
S_lt_html == <<"<", "h", "t", "m", "l">>
S_lt_doctype == <<"<", "!", "d", "o", "c", "t", "y", "p", "e", " ", "h", "t", "m", "l">>

Min(x, y) == IF x < y THEN x ELSE y
Max(x, y) == IF x > y THEN x ELSE y

LowerChar(c) ==
  CASE c = "H" -> "h" [] c = "T" -> "t" [] c = "M" -> "m" [] c = "L" -> "l"
    [] c = "D" -> "d" [] c = "O" -> "o" [] c = "C" -> "c" [] c = "Y" -> "y"
    [] c = "P" -> "p" [] c = "E" -> "e" [] c = "G" -> "g" [] c = "Z" -> "z"
    [] c = "I" -> "i" [] c = "X" -> "x" [] OTHER -> c

ToLower(s) == [k \in 1..Len(s) |-> LowerChar(s[k])]

IsSpace(c) == c \in {" ", "\n", "\t", "\r"}

RECURSIVE TrimLeft(_)
TrimLeft(s) ==
  IF s # << >> /\ IsSpace(Head(s)) THEN TrimLeft(Tail(s)) ELSE s

RECURSIVE TrimRight(_)
TrimRight(s) ==
  IF s # << >> /\ IsSpace(s[Len(s)]) THEN TrimRight(SubSeq(s, 1, Len(s) - 1)) ELSE s

TrimSpace(s) == TrimRight(TrimLeft(s))

HasPrefix(s, p) == Len(s) >= Len(p) /\ SubSeq(s, 1, Len(p)) = p

Contains(s, sub) ==
  \E k \in 0..Len(s) : k + Len(sub) <= Len(s) /\ SubSeq(s, k + 1, k + Len(sub)) = sub

PeekLen == 512
Peek(body) == SubSeq(body, 1, Min(Len(body), PeekLen))

\* ------------------------------------------------------------------------
\* Files, digests and header texts
\* ------------------------------------------------------------------------
NoFile == [ex |-> FALSE, data |-> << >>]
FileOf(d) == [ex |-> TRUE, data |-> d]

\* An MD5 text.  The hash itself is ideal (it identifies the bytes); up says
\* whether the hex digits are written in upper case.
EmptyMD5 == [empty |-> TRUE, h |-> << >>, up |-> FALSE]
MD5Text(d, u) == [empty |-> FALSE, h |-> d, up |-> u]

\* A faulty variant of strings.EqualFold: the comparison minds the case.
EqualFold_Exact(x, y) == x = y

EqualFold(x, y) == x.empty = y.empty /\ x.h = y.h

NoSidecar == [ex |-> FALSE, valid |-> FALSE, Size |-> 0, MD5 |-> EmptyMD5]
SidecarOf(d) == [ex |-> TRUE, valid |-> TRUE, Size |-> d.Size, MD5 |-> d.MD5]
BrokenSidecar == [ex |-> TRUE, valid |-> FALSE, Size |-> 0, MD5 |-> EmptyMD5]

computeFileDigest(f) == [Size |-> Len(f.data), MD5 |-> MD5Text(f.data, FALSE)]

\* A header text that is scanned with %d: a decimal number or something else.
NumText(n) == [num |-> TRUE, n |-> n]
BadText == [num |-> FALSE, n |-> 0]
NoHeader == [present |-> FALSE, text |-> BadText]
LengthHeader(t) == [present |-> TRUE, text |-> t]
\* Content-Range, already cut at "/" : the parts after the cut.
NoRange == [present |-> FALSE, parts |-> << >>]
RangeHeader(p) == [present |-> TRUE, parts |-> p]

ErrNil == "nil"


\* ------------------------------------------------------------------------
\* Pure functions of gofile.go
\* ------------------------------------------------------------------------
isValidDownloadStatus(statusCode, ps) ==
  IF statusCode \in {403, 404, 405, 500} THEN FALSE
  ELSE IF ps = 0 THEN statusCode = 200 \/ statusCode = 206
  ELSE statusCode = 206 \/ statusCode = 200

\* A faulty variant of isHTMLPayload: the body is not looked at.
isHTMLPayload_HeaderOnly(contentType, prefix) ==
  Contains(ToLower(contentType), S_texthtml)

isHTMLPayload(contentType, prefix) ==
  IF Contains(ToLower(contentType), S_texthtml) THEN TRUE
  ELSE LET trimmedLower == ToLower(TrimSpace(prefix))
       IN  HasPrefix(trimmedLower, S_lt_doctype) \/ HasPrefix(trimmedLower, S_lt_html)

\* fmt.Sscanf(text, "%d", &size)
Sscanf(t) == [ok |-> t.num, v |-> t.n]

\* extractFileSize returns (size, hasSize, err).
extractFileSize(header, ps) ==
  IF ps = 0 THEN
    IF ~header.clen.present THEN [size |-> 0, has |-> FALSE, err |-> ErrNil]
    ELSE IF ~Sscanf(header.clen.text).ok
      THEN [size |-> 0, has |-> FALSE, err |-> "invalid Content-Length"]
      ELSE [size |-> Sscanf(header.clen.text).v, has |-> TRUE, err |-> ErrNil]
  ELSE IF header.crange.present THEN
    IF Len(header.crange.parts) # 2
      THEN [size |-> 0, has |-> FALSE, err |-> "invalid Content-Range"]
    ELSE IF ~Sscanf(header.crange.parts[2]).ok
      THEN [size |-> 0, has |-> FALSE, err |-> "invalid Content-Range total size"]
      ELSE [size |-> Sscanf(header.crange.parts[2]).v, has |-> TRUE, err |-> ErrNil]
  ELSE IF ~header.clen.present THEN [size |-> 0, has |-> FALSE, err |-> ErrNil]
  ELSE IF ~Sscanf(header.clen.text).ok
      THEN [size |-> 0, has |-> FALSE, err |-> "invalid Content-Length"]
      ELSE [size |-> ps + Sscanf(header.clen.text).v, has |-> TRUE, err |-> ErrNil]

\* A faulty variant of validateDigestAgainstRemote: the MD5 is not compared.
validateDigestAgainstRemote_SizeOnly(d, f) ==
  IF f.Size > 0 /\ d.Size # f.Size THEN "size mismatch" ELSE ErrNil

validateDigestAgainstRemote(d, f) ==
  IF f.Size > 0 /\ d.Size # f.Size THEN "size mismatch"
  ELSE IF ~f.MD5.empty /\ ~EqualFold(d.MD5, f.MD5) THEN "md5 mismatch"
  ELSE ErrNil

\* verifyAndMaybeSkipExistingFile returns (ok, err) and may write the sidecar.
verifyAndMaybeSkipExistingFile(final, side, f) ==
  IF ~final.ex THEN [ok |-> FALSE, err |-> ErrNil, sidecar |-> side]
  ELSE IF Len(final.data) <= 0 THEN [ok |-> FALSE, err |-> ErrNil, sidecar |-> side]
  ELSE LET digest == computeFileDigest(final)
       IN  IF validateDigestAgainstRemote(digest, f) # ErrNil
             THEN [ok |-> FALSE, err |-> validateDigestAgainstRemote(digest, f), sidecar |-> side]
           ELSE IF side.ex /\ ~side.valid
             THEN [ok |-> FALSE, err |-> "invalid digest file", sidecar |-> side]
           ELSE IF side.ex /\ (side.Size # digest.Size \/ ~EqualFold(side.MD5, digest.MD5))
             THEN [ok |-> FALSE, err |-> "digest sidecar mismatch", sidecar |-> side]
           ELSE [ok |-> TRUE, err |-> ErrNil, sidecar |-> SidecarOf(digest)]

\* validateAndPersistDigest returns err and, without error, writes the sidecar.
validateAndPersistDigest(final, side, f) ==
  LET digest == computeFileDigest(final)
  IN  IF validateDigestAgainstRemote(digest, f) # ErrNil
        THEN [err |-> validateDigestAgainstRemote(digest, f), sidecar |-> side]
        ELSE [err |-> ErrNil, sidecar |-> SidecarOf(digest)]

\* A faulty variant of the loop bound: one pass too many.
Attempts_OffByOne(mr) == mr + 1

\* The number of passes of both retry loops: max(1, gh.maxRetries).
Attempts(mr) == Max(1, mr)


\* ------------------------------------------------------------------------
\* State of one GofileHandler.downloadFile target
\* ------------------------------------------------------------------------
VARIABLES
  finalFile,          \* the file at finalPath
  partFile,           \* the file at tmpPath = finalPath + ".part"
  sidecar,            \* the file at gofileDigestPath(finalPath)
  file,               \* gofileRemoteFile: the remote-declared Size and MD5
  maxRetries,         \* gh.maxRetries
  pc,                 \* position in downloadFile / downloadFileAttempt
  partSize,           \* downloadFile: partSize
  lastErr,            \* downloadFile: lastErr
  i,                  \* downloadFile: loop counter
  reqI,               \* doRequestWithRetry: loop counter
  rangeHdr,           \* the Range offset of the request being made, 0 = no Range header
  resp,               \* downloadFileAttempt: the response in hand
  effectivePartSize,  \* downloadFileAttempt: effectivePartSize
  expect,             \* downloadFileAttempt: totalSize, hasTotalSize
  result,             \* what downloadFile returned
  attemptErr,         \* what the last pass of the loop failed with
  requests,           \* HTTP requests sent by the current call
  rangeReqs,          \* those of them that carried a Range header
  corrupt,            \* the current call found the existing final file corrupt
  calls,              \* calls of downloadFile made so far
  prevCall            \* outcome of the previous call on the same target

dlVars == <<finalFile, partFile, sidecar, file, maxRetries, pc, partSize, lastErr, i,
            reqI, rangeHdr, resp, effectivePartSize, expect, result, attemptErr,
            requests, rangeReqs, corrupt, calls, prevCall>>

\* State of one Fetcher.FetchWithRetry call
VARIABLES
  MaxRetries,       \* f.config.MaxRetries
  urlValid,         \* whether http.NewRequest accepts targetURL
  fetchPc,          \* position in FetchWithRetry
  attempt,          \* FetchWithRetry: attempt
  fetchLastErr,     \* FetchWithRetry: lastErr
  fetchResult,      \* what FetchWithRetry returned
  fetchRequests,    \* HTTP requests handed to f.client.Do by this call
  outcomes          \* what each request so far ended in: a status, 0 = no answer

fetchVars == <<MaxRetries, urlValid, fetchPc, attempt, fetchLastErr, fetchResult,
               fetchRequests, outcomes>>

\* State of one Fetcher.fetchPagesConcurrently call
VARIABLES
  totalPages,       \* fetchPagesConcurrently: totalPages
  numWorkers,       \* fetchPagesConcurrently: numWorkers
  tasks,            \* the channel tasks
  tasksClosed,      \* close(tasks) was called
  page,             \* the sending goroutine: page
  results,          \* the channel results
  resultsClosed,    \* close(results) was called
  wg,               \* the WaitGroup counter
  wstate,           \* each worker: "recv", "fetch", "send" or "exit"
  wresult,          \* each worker: the PageFetchResult it is working on
  pageParsers,      \* fetchPagesConcurrently: pageParsers, indexed from 0
  pagesPc,          \* the calling goroutine: "collect" or "returned"
  validParsers,     \* the returned parsers
  pagesErr,         \* the returned error
  okPages,          \* pages whose fetch and parse succeeded
  arrivals          \* page numbers in the order their results were received

pageVars == <<totalPages, numWorkers, tasks, tasksClosed, page, results, resultsClosed,
              wg, wstate, wresult, pageParsers, pagesPc, validParsers, pagesErr,
              okPages, arrivals>>

\* State of one CookieManager and its cookie file
VARIABLES
  jar,              \* cm.jar.Cookies
  now,              \* time.Now()
  cookieFile,       \* the file at filepath
  backups,          \* files renamed to filepath + ".backup." + time stamp
  cookieRet,        \* the last operation on the manager and what it returned
  jarBefore,        \* cm.jar.Cookies before that operation
  trip              \* progress of a load, save, load sequence and what the first load gave

cookieVars == <<jar, now, cookieFile, backups, cookieRet, jarBefore, trip>>

\* State of the goroutines that use one CookieManager at the same time
VARIABLES
  gpc,              \* each goroutine: its position in AddCookie
  gcookie,          \* each goroutine: the cookie it adds
  gidx,             \* each goroutine: AddCookie: i of the entry found
  glen,             \* each goroutine: len(cm.jar.Cookies) read by append
  lookups,          \* GetCookiesForURL calls made by another goroutine
  seen              \* the entries those calls read

raceVars == <<gpc, gcookie, gidx, glen, lookups, seen>>

\* What sizes the worker pool of fetchPagesConcurrently
VARIABLES
  numCPU,           \* runtime.NumCPU()
  maxConcurrent     \* f.config.MaxConcurrent

poolVars == <<numCPU, maxConcurrent>>

\* State of the strict pagination switch around fetchPagesConcurrently
VARIABLES
  strict,           \* Config.HTTPStrictPagination as handed to resolvePageFetchResults
  missingListed     \* the page numbers listed by the returned error

strictVars == <<strict, missingListed>>

\* The Cookie header doRequest puts on a request
VARIABLES
  customCookie,     \* config.CustomHeaders["Cookie"], empty when there is none
  enableCookie,     \* config.EnableCookie
  reqCookieHeader   \* the Cookie header of the request that was built

reqVars == <<customCookie, enableCookie, reqCookieHeader>>

\* State of GofileHandler.DownloadAndAnnotateGofileLinks
VARIABLES
  gdirs,            \* the content directories below baseDir, by content id
  remote,           \* the files the content tree of each content id resolves to
  hasToken,         \* gh.token is set
  skipExisting,     \* gh.skipExisting
  urls,             \* the URLs of the batch
  bpc,              \* where DownloadAndAnnotateGofileLinks stands
  bidx,             \* the index of the URL the loop of downloadBatch is at
  berrs,            \* errs of downloadBatch
  bret,             \* what downloadBatch returned
  batchRequests,    \* the network requests of the batch so far
  attempted,        \* the indices of the URLs the loop has processed
  records,          \* post.GofileFiles
  recordsBefore,    \* post.GofileFiles before the last collectLocalFiles
  mapping,          \* the URL to local directory mapping handed to annotateGofileLinks
  batches           \* the calls so far

batchVars == <<gdirs, remote, hasToken, skipExisting, urls, bpc, bidx, berrs, bret, batchRequests, attempted, records, recordsBefore, mapping, batches>>

\* buildContentTree and the downloads of one share URL
VARIABLES
  ttree,            \* the remote content of one share URL (the root node)
  tfiles,           \* the files buildContentTree returned, in order
  tret,             \* what buildContentTree returned ("none", "ok", "error")
  tpc,              \* "start", "resolved" or "done"
  tnext,            \* index into tfiles of the next file to download
  tdisk             \* the local paths that have been written

treeVars == <<ttree, tfiles, tret, tpc, tnext, tdisk>>

\* One API request of fetchContent (decodeJSONResponse)
VARIABLES
  apiResp,          \* the answer of the API: status, Content-Encoding, body
  apiRet,           \* what fetchContent returned
  apc               \* "start" or "done"

apiVars == <<apiResp, apiRet, apc>>

\* ImageHandler.DownloadAndCacheImages
VARIABLES
  idoc,             \* the image destinations of the markdown document of the call, in order
  ipost,            \* post.Images
  ipostBefore,      \* post.Images when the call began
  idownload,        \* ih.download
  imapping,         \* the mapping of the call: pairs of URL and local file
  iout,             \* the destinations of the returned document
  iprev,            \* the URLs that earlier calls on this handler mapped
  icalls,           \* calls made on this handler
  ipc               \* "start" or "returned"

imgVars == <<idoc, ipost, ipostBefore, idownload, imapping, iout, iprev, icalls, ipc>>

\* The account token of a GofileHandler (gofile.go, ensureAccountToken)
VARIABLES
  ghToken,          \* gh.token, a string of characters
  configToken,      \* config.GofileToken as the handler was built with it
  tokCalls,         \* calls of ensureAccountToken so far
  accountRequests,  \* POST /accounts requests handed to doRequestWithRetry
  acquisitions,     \* calls that ended at line 297 after a request
  tokRet,           \* what the last call returned
  authHeader        \* the token the last download request carried

tokenVars == <<ghToken, configToken, tokCalls, accountRequests, acquisitions, tokRet, authHeader>>

vars == <<dlVars, fetchVars, pageVars, poolVars, strictVars, cookieVars, raceVars, reqVars, batchVars, treeVars, apiVars, imgVars, tokenVars>>

\* What each part leaves alone.
notDownload == <<fetchVars, pageVars, poolVars, strictVars, cookieVars, raceVars, reqVars, batchVars, treeVars, apiVars, imgVars, tokenVars>>
notFetch == <<dlVars, pageVars, poolVars, strictVars, cookieVars, raceVars, reqVars, batchVars, treeVars, apiVars, imgVars, tokenVars>>
notPages == <<dlVars, fetchVars, poolVars, strictVars, cookieVars, raceVars, reqVars, batchVars, treeVars, apiVars, imgVars, tokenVars>>
notStrictPages == <<dlVars, fetchVars, poolVars, cookieVars, raceVars, reqVars, batchVars, treeVars, apiVars, imgVars, tokenVars>>
notCookies == <<dlVars, fetchVars, pageVars, poolVars, strictVars, raceVars, reqVars, batchVars, treeVars, apiVars, imgVars, tokenVars>>
notRace == <<dlVars, fetchVars, pageVars, poolVars, strictVars, reqVars, batchVars, treeVars, apiVars, imgVars, tokenVars>>
notRequest == <<dlVars, fetchVars, pageVars, poolVars, strictVars, raceVars, batchVars, treeVars, apiVars, imgVars, tokenVars>>
notBatch == <<dlVars, fetchVars, pageVars, poolVars, strictVars, cookieVars, raceVars, reqVars, treeVars, apiVars, imgVars, tokenVars>>
notTree == <<dlVars, fetchVars, pageVars, poolVars, strictVars, cookieVars, raceVars, reqVars, batchVars, apiVars, imgVars, tokenVars>>
notApi == <<dlVars, fetchVars, pageVars, poolVars, strictVars, cookieVars, raceVars, reqVars, batchVars, treeVars, imgVars, tokenVars>>
notImg == <<dlVars, fetchVars, pageVars, poolVars, strictVars, cookieVars, raceVars, reqVars, batchVars, treeVars, apiVars, tokenVars>>
notToken == <<dlVars, fetchVars, pageVars, poolVars, strictVars, cookieVars, raceVars, reqVars, batchVars, treeVars, apiVars, imgVars>>

NoResp == [status |-> 0, ctype |-> CT_none, clen |-> NoHeader, crange |-> NoRange,
           body |-> << >>, readErr |-> FALSE]
NoExpect == [size |-> 0, has |-> FALSE]
NoResult == [returned |-> FALSE, ok |-> FALSE, msg |-> ErrNil, cause |-> ErrNil]

\* ------------------------------------------------------------------------
\* What the remote server may answer to one download request
\* ------------------------------------------------------------------------
Response(st, ct, cl, cr, b, re) ==
  [status |-> st, ctype |-> ct, clen |-> cl, crange |-> cr, body |-> b, readErr |-> re]

LengthOf(n) == LengthHeader(NumText(n))
RangeHeaders ==
  {NoRange, RangeHeader(<<BadText, NumText(2)>>), RangeHeader(<<BadText, BadText>>),
   RangeHeader(<<BadText>>)}

\* Answers that carry file bytes.
DataResponses ==
  { Response(200, CT_none, cl, NoRange, S_ab, FALSE) :
      cl \in {NoHeader, LengthOf(2), LengthHeader(BadText)} }
  \cup
  { Response(200, CT_bin, NoHeader, NoRange, b, FALSE) : b \in {Empty, S_ac} }
  \cup
  { Response(st, CT_none, LengthOf(2), NoRange, S_b, re) :
      st \in {200, 206}, re \in BOOLEAN }
  \cup
  { Response(206, CT_bin, cl, cr, S_b, FALSE) :
      cl \in {NoHeader, LengthOf(1)}, cr \in RangeHeaders }
  \cup
  { Response(206, CT_none, cl, NoRange, S_ab, FALSE) :
      cl \in {NoHeader, LengthHeader(BadText)} }

\* Answers with a status that is no download.
StatusResponses ==
  { Response(st, CT_none, NoHeader, NoRange, S_ab, FALSE) : st \in {302, 404, 500} }

\* Answers that are, or look like, an HTML page.
HtmlResponses ==
  { Response(200, CT_none, NoHeader, NoRange, b, FALSE) :
      b \in {S_html, S_HtmlUpperWs, S_doctype, S_htm} }
  \cup
  { Response(st, CT_bin, LengthOf(6), NoRange, S_html, FALSE) : st \in {206, 404} }
  \cup
  { Response(st, ct, LengthOf(2), NoRange, S_ab, FALSE) :
      st \in {200, 500}, ct \in {CT_html, CT_HTML} }

Responses == DataResponses \cup StatusResponses \cup HtmlResponses

\* ------------------------------------------------------------------------
\* Initial state: any local leftovers, any remote declaration
\* ------------------------------------------------------------------------
InitFinalFiles == {NoFile, FileOf(Empty), FileOf(S_ab), FileOf(S_ac)}
InitPartFiles == {NoFile, FileOf(S_a)}
InitSidecars ==
  {NoSidecar, BrokenSidecar, SidecarOf(computeFileDigest(FileOf(S_ab))),
   SidecarOf(computeFileDigest(FileOf(S_ac)))}
RemoteFiles ==
  { [Size |-> 0, MD5 |-> EmptyMD5], [Size |-> 2, MD5 |-> EmptyMD5],
    [Size |-> 0, MD5 |-> MD5Text(S_ab, TRUE)], [Size |-> 2, MD5 |-> MD5Text(S_ab, FALSE)] }

DLInit ==
  /\ finalFile \in InitFinalFiles
  /\ partFile \in InitPartFiles
  /\ sidecar \in InitSidecars
  /\ file \in RemoteFiles
  /\ maxRetries \in 0..MaxRetriesBound
  /\ pc = "start"
  /\ partSize = 0
  /\ lastErr = ErrNil
  /\ i = 0
  /\ reqI = 0
  /\ rangeHdr = 0
  /\ resp = NoResp
  /\ effectivePartSize = 0
  /\ expect = NoExpect
  /\ result = NoResult
  /\ attemptErr = ErrNil
  /\ requests = 0
  /\ rangeReqs = 0
  /\ corrupt = FALSE
  /\ calls = 1
  /\ prevCall = "none"

DLIdle ==
  /\ finalFile = NoFile
  /\ partFile = NoFile
  /\ sidecar = NoSidecar
  /\ file = [Size |-> 0, MD5 |-> EmptyMD5]
  /\ maxRetries = 0
  /\ pc = "off"
  /\ partSize = 0
  /\ lastErr = ErrNil
  /\ i = 0
  /\ reqI = 0
  /\ rangeHdr = 0
  /\ resp = NoResp
  /\ effectivePartSize = 0
  /\ expect = NoExpect
  /\ result = NoResult
  /\ attemptErr = ErrNil
  /\ requests = 0
  /\ rangeReqs = 0
  /\ corrupt = FALSE
  /\ calls = 0
  /\ prevCall = "none"


\* ------------------------------------------------------------------------
\* GofileHandler.downloadFile, step by step
\* ------------------------------------------------------------------------
\* A faulty variant of the removal: the sidecar is kept.
removeStale_FileOnly(final, side) == [finalFile |-> NoFile, sidecar |-> side]

\* downloadFile, lines 423-425: what is left after a failed verification.
removeStale(final, side) == [finalFile |-> NoFile, sidecar |-> NoSidecar]

\* A faulty variant of line 442: the validation error is not kept.
lastErrAfterValidation_Keep(old, err) == old

\* downloadFile, line 450, and line 442: the assignments to lastErr.
lastErrAfterAttempt(old, err) == err
lastErrAfterValidation(old, err) == err

\* A faulty variant of lines 552-556: a 200 answer does not reset the offset.
effectivePartSizeOf_Keep(ps, statusCode) == ps

\* downloadFileAttempt, lines 552-556.
effectivePartSizeOf(ps, statusCode) ==
  IF ps > 0 /\ statusCode = 200 THEN 0 ELSE ps

\* A faulty variant of the open flags: the .part file is always truncated.
writePart_Truncate(part, eff, body) == FileOf(body)

\* downloadFileAttempt, lines 563-579: open with O_APPEND or O_TRUNC and copy.
writePart(part, eff, body) ==
  IF eff > 0 THEN FileOf(part.data \o body) ELSE FileOf(body)

\* os.Stat(tmpPath) in downloadFile: the size when the file is there.
statPartSize(part, old) == IF part.ex THEN Len(part.data) ELSE old

\* The pass of the loop ends with an error of downloadFileAttempt
\* (downloadFile, lines 449-455).
AttemptFails(err, newPart) ==
  /\ partFile' = newPart
  /\ attemptErr' = err
  /\ lastErr' = lastErrAfterAttempt(lastErr, err)
  /\ partSize' = statPartSize(newPart, partSize)
  /\ i' = i + 1
  /\ pc' = "loop"
  /\ resp' = NoResp
  /\ effectivePartSize' = 0
  /\ expect' = NoExpect
  /\ UNCHANGED <<finalFile, sidecar, file, maxRetries, rangeHdr, result, corrupt,
                 calls, prevCall>>

\* downloadFile up to the loop: verification of an existing final file, the
\* fast path, removal of a corrupt file, the stat of the .part file.
Verify ==
  /\ UNCHANGED notDownload
  /\ pc = "start"
  /\ LET v == verifyAndMaybeSkipExistingFile(finalFile, sidecar, file)
     IN  IF v.err # ErrNil THEN
           /\ finalFile' = removeStale(finalFile, sidecar).finalFile
           /\ sidecar' = removeStale(finalFile, sidecar).sidecar
           /\ corrupt' = TRUE
           /\ partSize' = statPartSize(partFile, 0)
           /\ pc' = "loop"
           /\ UNCHANGED result
         ELSE IF v.ok THEN
           /\ sidecar' = v.sidecar
           /\ result' = [returned |-> TRUE, ok |-> TRUE, msg |-> ErrNil, cause |-> ErrNil]
           /\ pc' = "done"
           /\ UNCHANGED <<finalFile, corrupt, partSize>>
         ELSE
           /\ partSize' = statPartSize(partFile, 0)
           /\ pc' = "loop"
           /\ UNCHANGED <<finalFile, sidecar, corrupt, result>>
  /\ UNCHANGED <<partFile, file, maxRetries, lastErr, i, reqI, rangeHdr, resp,
                 effectivePartSize, expect, attemptErr, requests, rangeReqs, calls,
                 prevCall>>

\* The head of the loop of downloadFile: one more pass, which builds its
\* request, or the return with the retry-limit error.
LoopHead ==
  /\ UNCHANGED notDownload
  /\ pc = "loop"
  /\ IF i < Attempts(maxRetries) THEN
       /\ rangeHdr' = IF partSize > 0 THEN partSize ELSE 0
       /\ reqI' = 0
       /\ pc' = "request"
       /\ UNCHANGED result
     ELSE
       /\ result' = [returned |-> TRUE, ok |-> FALSE, msg |-> "exceeded retry limit",
                     cause |-> lastErr]
       /\ pc' = "done"
       /\ UNCHANGED <<rangeHdr, reqI>>
  /\ UNCHANGED <<finalFile, partFile, sidecar, file, maxRetries, partSize, lastErr, i,
                 resp, effectivePartSize, expect, attemptErr, requests, rangeReqs,
                 corrupt, calls, prevCall>>

\* One httpClient.Do of doRequestWithRetry: a response, a timeout (retried
\* while passes are left) or another network error (not retried).
HttpDo ==
  /\ UNCHANGED notDownload
  /\ pc = "request"
  /\ reqI < Attempts(maxRetries)
  /\ requests' = requests + 1
  /\ rangeReqs' = IF rangeHdr > 0 THEN rangeReqs + 1 ELSE rangeReqs
  /\ \/ /\ \E r \in Responses : resp' = r
        /\ pc' = "response"
        /\ UNCHANGED <<finalFile, partFile, sidecar, file, maxRetries, partSize, lastErr,
                       i, reqI, rangeHdr, effectivePartSize, expect, result, attemptErr,
                       corrupt, calls, prevCall>>
     \/ /\ reqI + 1 < Attempts(maxRetries)
        /\ reqI' = reqI + 1
        /\ UNCHANGED <<finalFile, partFile, sidecar, file, maxRetries, pc, partSize,
                       lastErr, i, rangeHdr, resp, effectivePartSize, expect, result,
                       attemptErr, corrupt, calls, prevCall>>
     \/ /\ reqI + 1 >= Attempts(maxRetries)
        /\ reqI' = reqI + 1
        /\ AttemptFails("network timeout", partFile)
     \/ /\ reqI' = reqI
        /\ AttemptFails("network error", partFile)

\* downloadFileAttempt from the status check to the end of io.Copy.
HandleResponse ==
  /\ UNCHANGED notDownload
  /\ pc = "response"
  /\ UNCHANGED <<reqI, requests, rangeReqs>>
  /\ IF ~isValidDownloadStatus(resp.status, partSize) THEN
       AttemptFails("unexpected status", partFile)
     ELSE IF isHTMLPayload(resp.ctype, Peek(resp.body)) THEN
       AttemptFails("unexpected HTML response body", partFile)
     ELSE
       LET eff == effectivePartSizeOf(partSize, resp.status)
           fs == extractFileSize(resp, eff)
       IN  IF fs.err # ErrNil THEN AttemptFails(fs.err, partFile)
           ELSE IF resp.readErr THEN
             AttemptFails("failed to write temp file", writePart(partFile, eff, resp.body))
           ELSE
             /\ partFile' = writePart(partFile, eff, resp.body)
             /\ effectivePartSize' = eff
             /\ expect' = [size |-> fs.size, has |-> fs.has]
             /\ pc' = "written"
             /\ UNCHANGED <<finalFile, sidecar, file, maxRetries, partSize, lastErr, i,
                            rangeHdr, resp, result, attemptErr, corrupt, calls, prevCall>>

\* downloadFileAttempt, lines 581-592: the size check and the rename.
Finalize ==
  /\ UNCHANGED notDownload
  /\ pc = "written"
  /\ UNCHANGED <<reqI, requests, rangeReqs>>
  /\ IF expect.has /\ Len(partFile.data) # expect.size THEN
       AttemptFails("download incomplete", partFile)
     ELSE
       /\ finalFile' = partFile
       /\ partFile' = NoFile
       /\ pc' = "renamed"
       /\ UNCHANGED <<sidecar, file, maxRetries, partSize, lastErr, i, rangeHdr, resp,
                      effectivePartSize, expect, result, attemptErr, corrupt, calls,
                      prevCall>>

\* downloadFile, lines 441-448: validateAndPersistDigest after a pass without
\* error; on failure the file and the sidecar are removed and the loop
\* continues without a new stat of the .part file.
Validate ==
  /\ UNCHANGED notDownload
  /\ pc = "renamed"
  /\ LET v == validateAndPersistDigest(finalFile, sidecar, file)
     IN  IF v.err # ErrNil THEN
           /\ lastErr' = lastErrAfterValidation(lastErr, v.err)
           /\ attemptErr' = v.err
           /\ finalFile' = NoFile
           /\ sidecar' = NoSidecar
           /\ i' = i + 1
           /\ pc' = "loop"
           /\ UNCHANGED result
         ELSE
           /\ sidecar' = v.sidecar
           /\ result' = [returned |-> TRUE, ok |-> TRUE, msg |-> ErrNil, cause |-> ErrNil]
           /\ pc' = "done"
           /\ UNCHANGED <<finalFile, lastErr, attemptErr, i>>
  /\ resp' = NoResp
  /\ effectivePartSize' = 0
  /\ expect' = NoExpect
  /\ UNCHANGED <<partFile, file, maxRetries, partSize, reqI, rangeHdr, requests,
                 rangeReqs, corrupt, calls, prevCall>>

\* After a call that returned without error, downloadFile is called again
\* for the same remote file, on what the previous call left on disk.
CallAgain ==
  /\ UNCHANGED notDownload
  /\ pc = "done"
  /\ result.ok
  /\ calls < MaxCalls
  /\ calls' = calls + 1
  /\ prevCall' = IF Len(finalFile.data) > 0 THEN "ok" ELSE "ok_empty"
  /\ pc' = "start"
  /\ partSize' = 0
  /\ lastErr' = ErrNil
  /\ i' = 0
  /\ reqI' = 0
  /\ rangeHdr' = 0
  /\ resp' = NoResp
  /\ effectivePartSize' = 0
  /\ expect' = NoExpect
  /\ result' = NoResult
  /\ attemptErr' = ErrNil
  /\ requests' = 0
  /\ rangeReqs' = 0
  /\ corrupt' = FALSE
  /\ UNCHANGED <<finalFile, partFile, sidecar, file, maxRetries>>

DLNext == Verify \/ LoopHead \/ HttpDo \/ HandleResponse \/ Finalize \/ Validate \/ CallAgain

\* ------------------------------------------------------------------------
\* Fetcher.FetchWithRetry (fetcher.go)
\* ------------------------------------------------------------------------
MaxFetchRetries == 2


NoErr == [class |-> "nil", status |-> 0]
NoFetchResult == [kind |-> "none", status |-> 0, retries |-> 0, cause |-> NoErr]

Statuses == {101, 200, 204, 302, 404, 429, 500, 503}

\* A faulty variant of the loop condition: attempt < MaxRetries.
moreAttempts_Strict(n, mr) == n < mr

\* FetchWithRetry, line 181: attempt <= f.config.MaxRetries.
moreAttempts(n, mr) == n <= mr

\* A faulty variant of lines 196-204: a 4xx answer is retried like a 5xx one.
classifyStatus_Retry4xx(st) ==
  IF st >= 200 /\ st < 300 THEN "return" ELSE "retry"

\* A faulty variant of lines 206-208: only a 5xx answer is retried, any other
\* answer that is not a 4xx one is returned.
classifyStatus_Only5xx(st) ==
  IF st >= 500 THEN "retry"
  ELSE IF st >= 400 THEN "fail"
  ELSE "return"

\* FetchWithRetry, lines 196-208: what is done with a status code.
classifyStatus(st) ==
  IF st >= 200 /\ st < 300 THEN "return"
  ELSE IF st >= 400 /\ st < 500 THEN "fail"
  ELSE "retry"

FetchInit ==
  /\ MaxRetries \in 0..MaxFetchRetries
  /\ urlValid \in BOOLEAN
  /\ fetchPc = "loop"
  /\ attempt = 0
  /\ fetchLastErr = NoErr
  /\ fetchResult = NoFetchResult
  /\ fetchRequests = 0
  /\ outcomes = << >>

FetchIdle ==
  /\ MaxRetries = 0
  /\ urlValid = TRUE
  /\ fetchPc = "off"
  /\ attempt = 0
  /\ fetchLastErr = NoErr
  /\ fetchResult = NoFetchResult
  /\ fetchRequests = 0
  /\ outcomes = << >>

\* One pass of the loop whose doRequest fails before anything is sent
\* (http.NewRequest rejects the URL).
FetchRequestNotBuilt ==
  /\ UNCHANGED notFetch
  /\ fetchPc = "loop"
  /\ moreAttempts(attempt, MaxRetries)
  /\ ~urlValid
  /\ fetchLastErr' = [class |-> "request", status |-> 0]
  /\ attempt' = attempt + 1
  /\ UNCHANGED <<MaxRetries, urlValid, fetchPc, fetchResult, fetchRequests, outcomes>>

\* One pass of the loop whose request fails in f.client.Do.
FetchNetworkError ==
  /\ UNCHANGED notFetch
  /\ fetchPc = "loop"
  /\ moreAttempts(attempt, MaxRetries)
  /\ urlValid
  /\ fetchRequests' = fetchRequests + 1
  /\ outcomes' = Append(outcomes, 0)
  /\ fetchLastErr' = [class |-> "network", status |-> 0]
  /\ attempt' = attempt + 1
  /\ UNCHANGED <<MaxRetries, urlValid, fetchPc, fetchResult>>

\* One pass of the loop whose request is answered.
FetchResponse ==
  /\ UNCHANGED notFetch
  /\ fetchPc = "loop"
  /\ moreAttempts(attempt, MaxRetries)
  /\ urlValid
  /\ fetchRequests' = fetchRequests + 1
  /\ \E st \in Statuses :
       /\ outcomes' = Append(outcomes, st)
       /\ IF classifyStatus(st) = "return" THEN
            /\ fetchResult' = [kind |-> "response", status |-> st, retries |-> 0,
                               cause |-> NoErr]
            /\ fetchPc' = "done"
            /\ UNCHANGED <<attempt, fetchLastErr>>
          ELSE IF classifyStatus(st) = "fail" THEN
            /\ fetchResult' = [kind |-> "error", status |-> 0, retries |-> 0,
                               cause |-> [class |-> "http", status |-> st]]
            /\ fetchPc' = "done"
            /\ UNCHANGED <<attempt, fetchLastErr>>
          ELSE
            /\ fetchLastErr' = [class |-> "server", status |-> st]
            /\ attempt' = attempt + 1
            /\ UNCHANGED <<fetchPc, fetchResult>>
  /\ UNCHANGED <<MaxRetries, urlValid>>

\* The loop is over: the error with the retry count and the last error.
FetchExhausted ==
  /\ UNCHANGED notFetch
  /\ fetchPc = "loop"
  /\ ~moreAttempts(attempt, MaxRetries)
  /\ fetchResult' = [kind |-> "exhausted", status |-> 0, retries |-> MaxRetries,
                     cause |-> fetchLastErr]
  /\ fetchPc' = "done"
  /\ UNCHANGED <<MaxRetries, urlValid, attempt, fetchLastErr, fetchRequests, outcomes>>

FetchNext == FetchRequestNotBuilt \/ FetchNetworkError \/ FetchResponse \/ FetchExhausted

\* ------------------------------------------------------------------------
\* Fetcher.fetchPagesConcurrently and fetchPageWorker (fetcher.go)
\* ------------------------------------------------------------------------
MaxPages == 4
MaxCPU == 2
MaxConcurrentBound == 2


\* A parser is identified by the page it was loaded from; 0 is nil.
NilParser == [ex |-> FALSE, of |-> 0]
ParserOf(n) == [ex |-> TRUE, of |-> n]
NoPageResult == [Page |-> 0, Error |-> FALSE, Parser |-> NilParser]

\* A faulty variant of lines 343-349: the limit of the configuration is not applied.
numWorkersOf_NoLimit(cpus, limit) == cpus

\* fetchPagesConcurrently, lines 343-349.
numWorkersOf(cpus, limit) ==
  LET n == IF cpus > limit THEN limit ELSE cpus
  IN  IF n < 1 THEN 1 ELSE n

Workers == 1..numWorkers
ChannelCap == totalPages - 1

\* A faulty variant of line 385: results are stored in the order they arrive.
resultSlot_Arrival(res, pp) ==
  CHOOSE k \in DOMAIN pp : ~pp[k].ex /\ \A j \in DOMAIN pp : j < k => pp[j].ex

\* fetchPagesConcurrently, line 385: the slot a result is written to.
resultSlot(res, pp) == res.Page - 1

\* fetchPagesConcurrently, lines 389-394: the parsers that are not nil, in
\* slot order.
RECURSIVE filterParsers(_, _)
filterParsers(pp, k) ==
  IF k \notin DOMAIN pp THEN << >>
  ELSE IF pp[k].ex THEN <<pp[k]>> \o filterParsers(pp, k + 1)
  ELSE filterParsers(pp, k + 1)

PagesInit ==
  /\ totalPages \in 2..MaxPages
  /\ numCPU \in 1..MaxCPU
  /\ maxConcurrent \in -1..MaxConcurrentBound
  /\ numWorkers = numWorkersOf(numCPU, maxConcurrent)
  /\ tasks = << >>
  /\ tasksClosed = FALSE
  /\ page = 2
  /\ results = << >>
  /\ resultsClosed = FALSE
  /\ wg = numWorkers
  /\ wstate = [w \in 1..numWorkers |-> "recv"]
  /\ wresult = [w \in 1..numWorkers |-> NoPageResult]
  /\ pageParsers = [k \in 0..(totalPages - 1) |-> IF k = 0 THEN ParserOf(1) ELSE NilParser]
  /\ pagesPc = "collect"
  /\ validParsers = << >>
  /\ pagesErr = FALSE
  /\ okPages = {}
  /\ arrivals = << >>

PagesIdle ==
  /\ totalPages = 1
  /\ numCPU = 1
  /\ maxConcurrent = 1
  /\ numWorkers = 0
  /\ tasks = << >>
  /\ tasksClosed = FALSE
  /\ page = 2
  /\ results = << >>
  /\ resultsClosed = FALSE
  /\ wg = 0
  /\ wstate = << >>
  /\ wresult = << >>
  /\ pageParsers = << >>
  /\ pagesPc = "off"
  /\ validParsers = << >>
  /\ pagesErr = FALSE
  /\ okPages = {}
  /\ arrivals = << >>

\* A faulty variant of line 366: the sending goroutine does not close tasks.
closeTasks_Forgotten(closed) == closed

\* fetchPagesConcurrently, line 366: close(tasks).
closeTasks(closed) == TRUE

\* The sending goroutine puts the next page number into tasks.
SendTask ==
  /\ UNCHANGED notPages
  /\ pagesPc # "off"
  /\ page <= totalPages
  /\ Len(tasks) < ChannelCap
  /\ tasks' = Append(tasks, page)
  /\ page' = page + 1
  /\ UNCHANGED <<totalPages, numWorkers, tasksClosed, results, resultsClosed, wg, wstate,
                 wresult, pageParsers, pagesPc, validParsers, pagesErr, okPages, arrivals>>

\* The sending goroutine closes tasks after the last page.
CloseTasks ==
  /\ UNCHANGED notPages
  /\ pagesPc # "off"
  /\ page > totalPages
  /\ ~tasksClosed
  /\ tasksClosed' = closeTasks(tasksClosed)
  /\ UNCHANGED <<totalPages, numWorkers, tasks, page, results, resultsClosed, wg, wstate,
                 wresult, pageParsers, pagesPc, validParsers, pagesErr, okPages, arrivals>>

\* A faulty variant of the receive: the task stays in the channel.
receiveTask_Peek(q) == q

\* fetchPageWorker, line 417: a receive takes the task out of the channel.
receiveTask(q) == Tail(q)

\* A worker takes a task from the channel.
WorkerReceive(w) ==
  /\ UNCHANGED notPages
  /\ wstate[w] = "recv"
  /\ tasks # << >>
  /\ tasks' = receiveTask(tasks)
  /\ wresult' = [wresult EXCEPT ![w] = [Page |-> Head(tasks), Error |-> FALSE,
                                         Parser |-> NilParser]]
  /\ wstate' = [wstate EXCEPT ![w] = "fetch"]
  /\ UNCHANGED <<totalPages, numWorkers, tasksClosed, page, results, resultsClosed, wg,
                 pageParsers, pagesPc, validParsers, pagesErr, okPages, arrivals>>

\* A worker finds tasks closed and empty: it leaves its loop, wg.Done().
WorkerExit(w) ==
  /\ UNCHANGED notPages
  /\ wstate[w] = "recv"
  /\ tasks = << >>
  /\ tasksClosed
  /\ wstate' = [wstate EXCEPT ![w] = "exit"]
  /\ wg' = wg - 1
  /\ UNCHANGED <<totalPages, numWorkers, tasks, tasksClosed, page, results, resultsClosed,
                 wresult, pageParsers, pagesPc, validParsers, pagesErr, okPages, arrivals>>

\* FetchPostWithPage and LoadFromString return: with a parser, or with the
\* error of either of them.
WorkerFetch(w) ==
  /\ UNCHANGED notPages
  /\ wstate[w] = "fetch"
  /\ \E ok \in BOOLEAN :
       /\ wresult' = [wresult EXCEPT ![w] =
                        IF ok THEN [Page |-> wresult[w].Page, Error |-> FALSE,
                                    Parser |-> ParserOf(wresult[w].Page)]
                        ELSE [Page |-> wresult[w].Page, Error |-> TRUE,
                              Parser |-> NilParser]]
       /\ okPages' = IF ok THEN okPages \cup {wresult[w].Page} ELSE okPages
  /\ wstate' = [wstate EXCEPT ![w] = "send"]
  /\ UNCHANGED <<totalPages, numWorkers, tasks, tasksClosed, page, results, resultsClosed,
                 wg, pageParsers, pagesPc, validParsers, pagesErr, arrivals>>

\* A worker puts its result into results.
WorkerSend(w) ==
  /\ UNCHANGED notPages
  /\ wstate[w] = "send"
  /\ ~resultsClosed
  /\ Len(results) < ChannelCap
  /\ results' = Append(results, wresult[w])
  /\ wresult' = [wresult EXCEPT ![w] = NoPageResult]
  /\ wstate' = [wstate EXCEPT ![w] = "recv"]
  /\ UNCHANGED <<totalPages, numWorkers, tasks, tasksClosed, page, resultsClosed, wg,
                 pageParsers, pagesPc, validParsers, pagesErr, okPages, arrivals>>

\* The closing goroutine: wg.Wait() is over, close(results).
CloseResults ==
  /\ UNCHANGED notPages
  /\ pagesPc # "off"
  /\ wg = 0
  /\ ~resultsClosed
  /\ resultsClosed' = TRUE
  /\ UNCHANGED <<totalPages, numWorkers, tasks, tasksClosed, page, results, wg, wstate,
                 wresult, pageParsers, pagesPc, validParsers, pagesErr, okPages, arrivals>>

\* The caller receives one result: a failed page is logged and skipped, a
\* parser is written to its slot.
CollectResult ==
  /\ UNCHANGED notPages
  /\ pagesPc = "collect"
  /\ results # << >>
  /\ LET res == Head(results)
     IN  /\ results' = Tail(results)
         /\ arrivals' = Append(arrivals, res.Page)
         /\ pageParsers' = IF res.Error THEN pageParsers
                           ELSE [pageParsers EXCEPT ![resultSlot(res, pageParsers)] = res.Parser]
  /\ UNCHANGED <<totalPages, numWorkers, tasks, tasksClosed, page, resultsClosed, wg,
                 wstate, wresult, pagesPc, validParsers, pagesErr, okPages>>

\* results is closed and drained: the nil parsers are filtered out and the
\* rest is returned with a nil error.
ReturnPages ==
  /\ UNCHANGED notPages
  /\ pagesPc = "collect"
  /\ results = << >>
  /\ resultsClosed
  /\ validParsers' = filterParsers(pageParsers, 0)
  /\ pagesErr' = FALSE
  /\ pagesPc' = "returned"
  /\ UNCHANGED <<totalPages, numWorkers, tasks, tasksClosed, page, results, resultsClosed,
                 wg, wstate, wresult, pageParsers, okPages, arrivals>>

PagesNext ==
  \/ SendTask
  \/ CloseTasks
  \/ \E w \in Workers : WorkerReceive(w)
  \/ \E w \in Workers : WorkerExit(w)
  \/ \E w \in Workers : WorkerFetch(w)
  \/ \E w \in Workers : WorkerSend(w)
  \/ CloseResults
  \/ CollectResult
  \/ ReturnPages

\* ------------------------------------------------------------------------
\* Strict pagination: resolvePageFetchResults (called in fetcher_pagination_test.go)
\* ------------------------------------------------------------------------
StrictIdle ==
  /\ strict = FALSE
  /\ missingListed = << >>

StrictInit ==
  /\ strict \in BOOLEAN
  /\ missingListed = << >>

\* The pages whose result carried an error, in the order the results came in.
collectMissing(arr, ok) == SelectSeq(arr, LAMBDA p : p \notin ok)

\* A faulty variant of resolvePageFetchResults: the strict switch is not looked at.
resolvePageFetchResults_NeverStrict(parsers, missing, isStrict) ==
  [parsers |-> filterParsers(parsers, 0), err |-> FALSE, listed |-> << >>]

\* resolvePageFetchResults(parsers, missing, strict): in strict mode with
\* missing pages an error listing them and no parsers; otherwise the parsers
\* that are not nil and no error.
resolvePageFetchResults(parsers, missing, isStrict) ==
  IF isStrict /\ missing # << >>
  THEN [parsers |-> << >>, err |-> TRUE, listed |-> missing]
  ELSE [parsers |-> filterParsers(parsers, 0), err |-> FALSE, listed |-> << >>]

\* results is closed and drained: the caller hands the slots and the missing
\* pages to resolvePageFetchResults and returns what it returns.
ResolvePages ==
  /\ UNCHANGED notStrictPages
  /\ pagesPc = "collect"
  /\ results = << >>
  /\ resultsClosed
  /\ LET r == resolvePageFetchResults(pageParsers, collectMissing(arrivals, okPages), strict)
     IN  /\ validParsers' = r.parsers
         /\ pagesErr' = r.err
         /\ missingListed' = r.listed
  /\ pagesPc' = "returned"
  /\ UNCHANGED <<totalPages, numWorkers, tasks, tasksClosed, page, results, resultsClosed,
                 wg, wstate, wresult, pageParsers, okPages, arrivals, strict>>

StrictPagesNext ==
  \/ SendTask
  \/ CloseTasks
  \/ \E w \in Workers : WorkerReceive(w)
  \/ \E w \in Workers : WorkerExit(w)
  \/ \E w \in Workers : WorkerFetch(w)
  \/ \E w \in Workers : WorkerSend(w)
  \/ CloseResults
  \/ CollectResult
  \/ ResolvePages

\* ------------------------------------------------------------------------
\* CookieManager (cookie.go): the pure parts
\* ------------------------------------------------------------------------
\* Texts: hosts, cookie domains, paths.
H_ex == <<"e", "x", ".", "c">>
H_sub == <<"s", ".", "e", "x", ".", "c">>
H_other == <<"o", "e", "x", ".", "c">>
D_dot_ex == <<".", "e", "x", ".", "c">>
D_dot == <<".">>
P_root == <<"/">>
P_x == <<"/", "x">>
P_xy == <<"/", "x", "y">>
P_x_noslash == <<"x">>
P_y == <<"/", "y">>
N_a == <<"a">>
N_b == <<"b">>
N_c == <<"c">>
N_winduser == <<"e", "b", "9", "e", "6", "_", "w", "i", "n", "d", "u", "s", "e", "r">>

HasSuffix(s, suf) == Len(s) >= Len(suf) /\ SubSeq(s, Len(s) - Len(suf) + 1, Len(s)) = suf

\* CookieEntry; Expires = 0 is the zero time.
CookieEntry(n, v, d, p, e, sec, ho) ==
  [Name |-> n, Value |-> v, Domain |-> d, Path |-> p, Expires |-> e, Secure |-> sec,
   HttpOnly |-> ho]

\* The identity of an entry as AddCookie compares it.
sameKey(c1, c2) == c1.Name = c2.Name /\ c1.Domain = c2.Domain /\ c1.Path = c2.Path

\* cookie.Expires.Before(now) for a time that is set.
isExpired(c, t) == c.Expires # 0 /\ c.Expires < t

\* A faulty variant of AddCookie: the entry is always appended.
AddCookie_AlwaysAppend(cookies, cookie) == Append(cookies, cookie)

\* AddCookie: the first entry with the same name, domain and path is
\* overwritten where it is; without one the cookie is appended.
AddCookie(cookies, cookie) ==
  IF \E k \in 1..Len(cookies) : sameKey(cookies[k], cookie)
  THEN LET k == CHOOSE j \in 1..Len(cookies) :
                  /\ sameKey(cookies[j], cookie)
                  /\ \A l \in 1..(j - 1) : ~sameKey(cookies[l], cookie)
       IN  [cookies EXCEPT ![k] = cookie]
  ELSE Append(cookies, cookie)

\* CleanExpired: the entries that are not expired, in their order.
CleanExpired(cookies, t) == SelectSeq(cookies, LAMBDA c : ~isExpired(c, t))

\* A faulty variant of domainMatches: any host ending in the remainder matches.
domainMatches_Loose(cookieDomain, host) ==
  \/ cookieDomain = << >>
  \/ cookieDomain = host
  \/ /\ HasPrefix(cookieDomain, D_dot)
     /\ HasSuffix(host, SubSeq(cookieDomain, 2, Len(cookieDomain)))

\* domainMatches.
domainMatches(cookieDomain, host) ==
  \/ cookieDomain = << >>
  \/ cookieDomain = host
  \/ /\ HasPrefix(cookieDomain, D_dot)
     /\ \/ HasSuffix(host, cookieDomain)
        \/ host = SubSeq(cookieDomain, 2, Len(cookieDomain))

\* pathMatches.
pathMatches(cookiePath, urlPath) ==
  \/ cookiePath = << >>
  \/ cookiePath = P_root
  \/ LET cp == IF HasPrefix(cookiePath, P_root) THEN cookiePath ELSE P_root \o cookiePath
     IN  HasPrefix(urlPath, cp)

\* A faulty variant of isCookieApplicable: the secure flag is not looked at.
isCookieApplicable_NoSecure(cookie, u, t) ==
  /\ ~isExpired(cookie, t)
  /\ domainMatches(cookie.Domain, u.Host)
  /\ pathMatches(cookie.Path, u.Path)

\* isCookieApplicable.
isCookieApplicable(cookie, u, t) ==
  /\ ~isExpired(cookie, t)
  /\ domainMatches(cookie.Domain, u.Host)
  /\ pathMatches(cookie.Path, u.Path)
  /\ ~(cookie.Secure /\ u.Scheme # "https")

\* A URL as url.Parse returns it; ok = FALSE when it returns an error.
ParsedURL(scheme, host, path) == [ok |-> TRUE, Scheme |-> scheme, Host |-> host, Path |-> path]
BadURL == [ok |-> FALSE, Scheme |-> "", Host |-> << >>, Path |-> << >>]

\* GetCookiesForURL: nil for a URL that does not parse, otherwise the
\* applicable entries in the order of the store.
GetCookiesForURL(cookies, u, t) ==
  IF ~u.ok THEN << >>
  ELSE SelectSeq(cookies, LAMBDA c : isCookieApplicable(c, u, t))

\* UpdateFromResponse for one cookie of resp.Cookies(): an empty domain
\* becomes the host of the request, an empty path "/".
defaultedCookie(httpCookie, reqHost) ==
  [httpCookie EXCEPT !.Domain = IF httpCookie.Domain = << >> THEN reqHost ELSE httpCookie.Domain,
                     !.Path = IF httpCookie.Path = << >> THEN P_root ELSE httpCookie.Path]

\* UpdateFromResponse: every cookie of the response is added in turn.
RECURSIVE UpdateFromResponse(_, _, _)
UpdateFromResponse(cookies, setCookies, reqHost) ==
  IF setCookies = << >> THEN cookies
  ELSE UpdateFromResponse(AddCookie(cookies, defaultedCookie(Head(setCookies), reqHost)),
                          Tail(setCookies), reqHost)

\* ------------------------------------------------------------------------
\* CookieManager used by several page workers at once (fetcher.go, FetchURL)
\* ------------------------------------------------------------------------
MaxWriters == 2
MaxLookups == 2

NoCookieFile == [ex |-> FALSE, kind |-> "none", cookies |-> << >>]
NoCookieRet == [op |-> "none", err |-> FALSE, out |-> << >>, arg |-> << >>]

CookieIdle ==
  /\ jar = << >>
  /\ now = 1
  /\ cookieFile = NoCookieFile
  /\ backups = 0
  /\ cookieRet = NoCookieRet
  /\ jarBefore = << >>
  /\ trip = [stage |-> 0, first |-> << >>]

RaceIdle ==
  /\ gpc = << >>
  /\ gcookie = << >>
  /\ gidx = << >>
  /\ glen = << >>
  /\ lookups = 0
  /\ seen = {}

Goroutines == 1..MaxWriters

\* The store the workers start from, and the cookie worker g got from its
\* response: its value tells the workers apart.
RaceStore == <<CookieEntry(N_a, 0, H_ex, P_root, 0, FALSE, FALSE)>>
RaceCookie(g, n) == CookieEntry(n, g, H_ex, P_root, 0, TRUE, FALSE)

RaceInit ==
  /\ jar = RaceStore
  /\ now = 1
  /\ cookieFile = NoCookieFile
  /\ backups = 0
  /\ cookieRet = NoCookieRet
  /\ jarBefore = RaceStore
  /\ trip = [stage |-> 0, first |-> << >>]
  /\ gcookie \in [Goroutines -> {RaceCookie(g, n) : g \in Goroutines, n \in {N_a, N_b, N_c}}]
  /\ \A g \in Goroutines : gcookie[g].Value = g
  /\ gpc = [g \in Goroutines |-> "scan"]
  /\ gidx = [g \in Goroutines |-> 0]
  /\ glen = [g \in Goroutines |-> 0]
  /\ lookups = 0
  /\ seen = {}

\* AddCookie, lines 123-131: the loop over the entries looks for the key.
RaceScan(g) ==
  /\ UNCHANGED notRace
  /\ gpc[g] = "scan"
  /\ LET hit == {k \in 1..Len(jar) : sameKey(jar[k], gcookie[g])}
     IN  IF hit = {}
         THEN gidx' = gidx /\ gpc' = [gpc EXCEPT ![g] = "load"]
         ELSE /\ gidx' = [gidx EXCEPT ![g] = CHOOSE k \in hit : \A j \in hit : k <= j]
              /\ gpc' = [gpc EXCEPT ![g] = "copy"]
  /\ UNCHANGED <<jar, now, cookieFile, backups, cookieRet, jarBefore, trip, gcookie, glen,
                 lookups, seen>>

\* AddCookie, line 128: cm.jar.Cookies[i] = *cookie copies the entry word by
\* word; the value is written first here.
RaceCopyValue(g) ==
  /\ UNCHANGED notRace
  /\ gpc[g] = "copy"
  /\ jar' = [jar EXCEPT ![gidx[g]].Value = gcookie[g].Value]
  /\ gpc' = [gpc EXCEPT ![g] = "copyRest"]
  /\ UNCHANGED <<now, cookieFile, backups, cookieRet, jarBefore, trip, gcookie, gidx, glen,
                 lookups, seen>>

\* AddCookie, line 128: the rest of the entry is written.
RaceCopyRest(g) ==
  /\ UNCHANGED notRace
  /\ gpc[g] = "copyRest"
  /\ jar' = [jar EXCEPT ![gidx[g]] = gcookie[g]]
  /\ gpc' = [gpc EXCEPT ![g] = "done"]
  /\ UNCHANGED <<now, cookieFile, backups, cookieRet, jarBefore, trip, gcookie, gidx, glen,
                 lookups, seen>>

\* AddCookie, line 134: append reads the slice.
RaceLoadSlice(g) ==
  /\ UNCHANGED notRace
  /\ gpc[g] = "load"
  /\ glen' = [glen EXCEPT ![g] = Len(jar)]
  /\ gpc' = [gpc EXCEPT ![g] = "store"]
  /\ UNCHANGED <<jar, now, cookieFile, backups, cookieRet, jarBefore, trip, gcookie, gidx,
                 lookups, seen>>

\* AddCookie, line 134: the cookie is put behind the entries append read and
\* the slice is stored.
RaceStoreSlice(g) ==
  /\ UNCHANGED notRace
  /\ gpc[g] = "store"
  /\ jar' = Append(SubSeq(jar, 1, glen[g]), gcookie[g])
  /\ gpc' = [gpc EXCEPT ![g] = "done"]
  /\ UNCHANGED <<now, cookieFile, backups, cookieRet, jarBefore, trip, gcookie, gidx, glen,
                 lookups, seen>>

\* doRequest of another worker: GetCookiesForURL reads the entries.
RaceLookup ==
  /\ UNCHANGED notRace
  /\ gpc # << >>
  /\ lookups < MaxLookups
  /\ lookups' = lookups + 1
  /\ seen' = seen \cup {jar[k] : k \in 1..Len(jar)}
  /\ UNCHANGED <<jar, now, cookieFile, backups, cookieRet, jarBefore, trip, gpc, gcookie, gidx,
                 glen>>

RaceNext ==
  \/ \E g \in Goroutines : RaceScan(g)
  \/ \E g \in Goroutines : RaceCopyValue(g)
  \/ \E g \in Goroutines : RaceCopyRest(g)
  \/ \E g \in Goroutines : RaceLoadSlice(g)
  \/ \E g \in Goroutines : RaceStoreSlice(g)
  \/ RaceLookup

\* ------------------------------------------------------------------------
\* CookieManager (cookie.go): the operations, called one after the other
\* ------------------------------------------------------------------------
MaxJar == 2
MaxNow == 3
MaxBackups == 1

\* toml.Marshal of one CookieEntry: a table with the keys of the toml tags;
\* the zero time is written as the date-time of year 1.
tomlTable(c) ==
  [name |-> c.Name, value |-> c.Value, domain |-> c.Domain, path |-> c.Path,
   expires |-> [year1 |-> c.Expires = 0, at |-> c.Expires],
   secure |-> c.Secure, http_only |-> c.HttpOnly]

\* toml.Unmarshal of one table into a CookieEntry.
tomlEntry(t) ==
  CookieEntry(t.name, t.value, t.domain, t.path,
              IF t.expires.year1 THEN 0 ELSE t.expires.at, t.secure, t.http_only)

tomlMarshal(cookies) == [k \in 1..Len(cookies) |-> tomlTable(cookies[k])]
tomlUnmarshal(tables) == [k \in 1..Len(tables) |-> tomlEntry(tables[k])]

TomlFile(cookies) == [ex |-> TRUE, kind |-> "toml", cookies |-> tomlMarshal(cookies)]
EmptyCookieFile == [ex |-> TRUE, kind |-> "empty", cookies |-> << >>]
GarbageCookieFile == [ex |-> TRUE, kind |-> "garbage", cookies |-> << >>]

NoTrip == [stage |-> 0, first |-> << >>]

\* The cookies the callers add, the cookies a response sets, and the files
\* found at filepath.
ExpirySet == {0, 2}
StoreCookies ==
  {CookieEntry(N_winduser, 1, H_ex, P_root, e, FALSE, TRUE) : e \in ExpirySet} \cup
  {CookieEntry(N_a, 1, H_ex, P_root, e, TRUE, FALSE) : e \in ExpirySet}
ResponseCookies ==
  {CookieEntry(N_a, 2, d, << >>, 0, FALSE, FALSE) : d \in {<< >>, D_dot_ex}}
SetCookieLists ==
  {<<c>> : c \in ResponseCookies} \cup
  {<<CookieEntry(N_a, 2, D_dot_ex, << >>, 0, FALSE, FALSE),
     CookieEntry(N_a, 2, << >>, << >>, 0, FALSE, FALSE)>>}
FoundFiles ==
  {NoCookieFile, EmptyCookieFile, GarbageCookieFile} \cup
  {TomlFile(<<CookieEntry(N_winduser, 1, H_ex, P_root, 2, FALSE, TRUE), c>>) :
     c \in {k \in StoreCookies : k.Name = N_a}} \cup
  {TomlFile(<<c>>) : c \in {k \in StoreCookies : k.Expires = 0}}

\* A faulty variant of lines 82-84: any cookie counts as the login cookie.
hasLoginCookie_Any(cookies) == cookies # << >>

\* LoadFromFile, lines 82-84: lo.ContainsBy over the pruned entries.
hasLoginCookie(cookies) == \E k \in 1..Len(cookies) : cookies[k].Name = N_winduser

\* A faulty variant of SaveToFile: only the first entry reaches the file.
SaveToFile_FirstOnly(cookies, t) ==
  LET kept == CleanExpired(cookies, t)
  IN  [jar |-> kept, file |-> TomlFile(SubSeq(kept, 1, Min(1, Len(kept))))]

\* SaveToFile: CleanExpired, then the store is marshalled and written.
SaveToFile(cookies, t) ==
  LET kept == CleanExpired(cookies, t)
  IN  [jar |-> kept, file |-> TomlFile(kept)]

\* LoadFromFile: what becomes of the store, the file and the backups.
LoadFromFile(cookies, f, t, nb) ==
  IF ~f.ex
  THEN LET s == SaveToFile(cookies, t) IN [jar |-> s.jar, file |-> s.file, backups |-> nb]
  ELSE IF f.kind = "empty"
  THEN [jar |-> cookies, file |-> f, backups |-> nb]
  ELSE IF f.kind = "garbage"
  THEN LET s == SaveToFile(cookies, t) IN [jar |-> s.jar, file |-> s.file, backups |-> nb + 1]
  ELSE LET kept == CleanExpired(tomlUnmarshal(f.cookies), t)
       IN  [jar |-> IF hasLoginCookie(kept) THEN kept ELSE << >>, file |-> f, backups |-> nb]

CookieInit ==
  /\ jar = << >>
  /\ now = 1
  /\ cookieFile \in FoundFiles
  /\ backups = 0
  /\ cookieRet = NoCookieRet
  /\ jarBefore = << >>
  /\ trip = NoTrip

\* A caller adds a cookie.
CookieAdd ==
  /\ UNCHANGED notCookies
  /\ \E c \in StoreCookies :
       /\ Len(AddCookie(jar, c)) <= MaxJar
       /\ jar' = AddCookie(jar, c)
       /\ cookieRet' = [op |-> "AddCookie", err |-> FALSE, out |-> << >>, arg |-> <<c>>]
  /\ jarBefore' = jar
  /\ trip' = NoTrip
  /\ UNCHANGED <<now, cookieFile, backups>>

\* FetchURL hands a response of host H_ex to UpdateFromResponse.
CookieUpdate ==
  /\ UNCHANGED notCookies
  /\ \E sc \in SetCookieLists :
       /\ Len(UpdateFromResponse(jar, sc, H_ex)) <= MaxJar
       /\ jar' = UpdateFromResponse(jar, sc, H_ex)
       /\ cookieRet' = [op |-> "UpdateFromResponse", err |-> FALSE, out |-> << >>, arg |-> sc]
  /\ jarBefore' = jar
  /\ trip' = NoTrip
  /\ UNCHANGED <<now, cookieFile, backups>>

\* SaveToFile(filepath).
CookieSave ==
  /\ UNCHANGED notCookies
  /\ LET s == SaveToFile(jar, now)
     IN  jar' = s.jar /\ cookieFile' = s.file
  /\ cookieRet' = [op |-> "SaveToFile", err |-> FALSE, out |-> << >>, arg |-> << >>]
  /\ jarBefore' = jar
  /\ trip' = IF trip.stage = 1 THEN [trip EXCEPT !.stage = 2] ELSE NoTrip
  /\ UNCHANGED <<now, backups>>

\* LoadFromFile(filepath).
CookieLoad ==
  /\ UNCHANGED notCookies
  /\ backups < MaxBackups \/ cookieFile.kind # "garbage"
  /\ LET l == LoadFromFile(jar, cookieFile, now, backups)
     IN  /\ jar' = l.jar
         /\ cookieFile' = l.file
         /\ backups' = l.backups
         /\ trip' = IF cookieFile.kind # "toml" THEN NoTrip
                    ELSE IF trip.stage = 2 THEN [trip EXCEPT !.stage = 3]
                    ELSE [stage |-> 1, first |-> l.jar]
  /\ cookieRet' = [op |-> "LoadFromFile", err |-> FALSE, out |-> << >>,
                   arg |-> <<cookieFile.kind>>]
  /\ jarBefore' = jar
  /\ UNCHANGED now

\* Time passes.
CookieTick ==
  /\ UNCHANGED notCookies
  /\ now < MaxNow
  /\ now' = now + 1
  /\ cookieRet' = [op |-> "Tick", err |-> FALSE, out |-> << >>, arg |-> << >>]
  /\ UNCHANGED <<jar, cookieFile, backups, jarBefore, trip>>

\* Someone else replaces the cookie file.
CookieFileReplaced ==
  /\ UNCHANGED notCookies
  /\ cookieRet.op # "FileReplaced"
  /\ \E f \in FoundFiles : f # cookieFile /\ cookieFile' = f
  /\ cookieRet' = [op |-> "FileReplaced", err |-> FALSE, out |-> << >>, arg |-> << >>]
  /\ jarBefore' = jar
  /\ trip' = NoTrip
  /\ UNCHANGED <<jar, now, backups>>

CookieNext ==
  \/ CookieAdd
  \/ CookieUpdate
  \/ CookieSave
  \/ CookieLoad
  \/ CookieTick
  \/ CookieFileReplaced

UpsertNext ==
  \/ CookieAdd
  \/ CookieUpdate

\* ------------------------------------------------------------------------
\* CookieManager.GetCookiesForURL over stores and URLs of every shape
\* ------------------------------------------------------------------------
\* Entries as AddCookie and a cookie file can put them into the store: the
\* domain may be empty, the path may lack its leading slash.
LookupCookie(n, d, p, e, sec) == CookieEntry(n, 1, d, p, e, sec, FALSE)
LookupCookies ==
  {LookupCookie(N_a, H_ex, P_root, 0, FALSE),
   LookupCookie(N_b, D_dot_ex, P_root, 0, FALSE),
   LookupCookie(N_c, << >>, P_root, 0, FALSE),
   LookupCookie(N_a, H_ex, P_x, 0, FALSE),
   LookupCookie(N_b, H_ex, P_x_noslash, 0, FALSE),
   LookupCookie(N_c, H_sub, << >>, 0, FALSE),
   LookupCookie(N_a, H_ex, P_root, 0, TRUE),
   LookupCookie(N_b, H_ex, P_root, 2, FALSE),
   LookupCookie(N_c, D_dot_ex, P_x, 2, TRUE)}
LookupStores ==
  UNION {[1..n -> LookupCookies] : n \in 0..MaxJar}
LookupURLs ==
  {ParsedURL(s, h, p) : s \in {"http", "https"}, h \in {H_ex, H_sub, H_other},
                        p \in {P_x, P_xy, P_y}} \cup {BadURL}

LookupInit ==
  /\ jar \in LookupStores
  /\ now \in 1..MaxNow
  /\ cookieFile = NoCookieFile
  /\ backups = 0
  /\ cookieRet = NoCookieRet
  /\ jarBefore = jar
  /\ trip = NoTrip

\* doRequest asks for the cookies of the target URL.
CookieLookup ==
  /\ UNCHANGED notCookies
  /\ \E u \in LookupURLs :
       cookieRet' = [op |-> "GetCookiesForURL", err |-> FALSE,
                     out |-> GetCookiesForURL(jar, u, now), arg |-> <<u>>]
  /\ UNCHANGED <<jar, now, cookieFile, backups, jarBefore, trip>>

LookupNext ==
  \/ CookieLookup

\* ------------------------------------------------------------------------
\* The store under every operation of the manager, lookups included
\* ------------------------------------------------------------------------
StoreURLs == {ParsedURL("https", H_ex, P_x), ParsedURL("http", H_other, P_y)}

\* A faulty variant of GetCookiesForURL: the scan drops the expired entries.
storeAfterLookup_Pruned(cookies, u, t) == CleanExpired(cookies, t)

\* GetCookiesForURL, lines 138-152: the loop reads cm.jar.Cookies and
\* isCookieApplicable gets a copy of each entry; nothing is assigned.
storeAfterLookup(cookies, u, t) == cookies

\* ClearCookies, lines 279-281.
ClearCookies(cookies) == << >>

\* GetCookiesForURL(url).
StoreLookup ==
  /\ UNCHANGED notCookies
  /\ \E u \in StoreURLs :
       /\ jar' = storeAfterLookup(jar, u, now)
       /\ cookieRet' = [op |-> "GetCookiesForURL", err |-> FALSE,
                        out |-> GetCookiesForURL(jar, u, now), arg |-> <<u>>]
  /\ jarBefore' = jar
  /\ trip' = NoTrip
  /\ UNCHANGED <<now, cookieFile, backups>>

\* ClearCookies().
StoreClear ==
  /\ UNCHANGED notCookies
  /\ jar # << >>
  /\ jar' = ClearCookies(jar)
  /\ cookieRet' = [op |-> "ClearCookies", err |-> FALSE, out |-> << >>, arg |-> << >>]
  /\ jarBefore' = jar
  /\ trip' = NoTrip
  /\ UNCHANGED <<now, cookieFile, backups>>

StoreNext ==
  \/ CookieAdd
  \/ CookieUpdate
  \/ CookieSave
  \/ CookieLoad
  \/ CookieTick
  \/ StoreLookup
  \/ StoreClear

\* ------------------------------------------------------------------------
\* Fetcher.doRequest (fetcher.go): the Cookie header of a request
\* ------------------------------------------------------------------------
SemicolonSpace == <<";", " ">>
EqualsSign == <<"=">>
Quote == <<"\"">>
CookieNameUnsafe == {"\n", "\r"}
CookieValueInvalid == {";", "\"", "\\"}
CookieValueQuoted == {" ", ","}

\* net/http sanitizeCookieName: line breaks become '-'.
sanitizeCookieName(n) ==
  [k \in 1..Len(n) |-> IF n[k] \in CookieNameUnsafe THEN "-" ELSE n[k]]

\* net/http sanitizeCookieValue: bytes not allowed in a value are dropped,
\* a value with a space or a comma is put in double quotes.
sanitizeCookieValue(v) ==
  LET kept == SelectSeq(v, LAMBDA ch : ch \notin CookieValueInvalid)
  IN  IF \E k \in 1..Len(kept) : kept[k] \in CookieValueQuoted
      THEN Quote \o kept \o Quote
      ELSE kept

\* A faulty variant of the request's AddCookie: the path is sent too.
RequestAddCookie_WithPath(header, c) ==
  LET s == sanitizeCookieName(c.Name) \o EqualsSign \o sanitizeCookieValue(c.Value)
             \o SemicolonSpace \o <<"P", "a", "t", "h", "=">> \o c.Path
  IN  IF header # << >> THEN header \o SemicolonSpace \o s ELSE s

\* req.AddCookie(httpCookie): name=value is put behind the Cookie header the
\* request already has, after "; ".
RequestAddCookie(header, c) ==
  LET s == sanitizeCookieName(c.Name) \o EqualsSign \o sanitizeCookieValue(c.Value)
  IN  IF header # << >> THEN header \o SemicolonSpace \o s ELSE s

RECURSIVE RequestAddCookies(_, _)
RequestAddCookies(header, cookies) ==
  IF cookies = << >> THEN header
  ELSE RequestAddCookies(RequestAddCookie(header, Head(cookies)), Tail(cookies))

\* The Cookie header of the request doRequest sends: the custom header, then
\* with EnableCookie the cookies of the target URL.
doRequestCookieHeader(custom, enabled, cookies, u, t) ==
  IF enabled THEN RequestAddCookies(custom, GetCookiesForURL(cookies, u, t)) ELSE custom

V_plain == <<"1">>
V_semicolon == <<"2", ";">>
V_space == <<"3", " ", "4">>
N_linebreak == <<"a", "\n">>
CustomCookieValue == <<"k", "=", "v">>

RequestCookies ==
  {CookieEntry(N_a, V_plain, H_ex, P_root, 0, FALSE, TRUE),
   CookieEntry(N_b, V_plain, D_dot_ex, P_x, 2, TRUE, FALSE),
   CookieEntry(N_winduser, V_semicolon, H_ex, P_root, 0, TRUE, TRUE),
   CookieEntry(N_c, V_space, H_ex, P_root, 0, FALSE, FALSE),
   CookieEntry(N_linebreak, V_plain, H_ex, P_root, 0, FALSE, FALSE),
   CookieEntry(N_a, V_plain, H_other, P_root, 0, FALSE, FALSE)}
RequestStores ==
  UNION {[1..n -> RequestCookies] : n \in 0..MaxJar}
RequestURLs ==
  {ParsedURL(s, H_ex, P_x) : s \in {"http", "https"}}

ReqIdle ==
  /\ customCookie = << >>
  /\ enableCookie = TRUE
  /\ reqCookieHeader = << >>

RequestInit ==
  /\ jar \in RequestStores
  /\ now = 1
  /\ cookieFile = NoCookieFile
  /\ backups = 0
  /\ cookieRet = NoCookieRet
  /\ jarBefore = jar
  /\ trip = NoTrip
  /\ customCookie \in {<< >>, CustomCookieValue}
  /\ enableCookie \in BOOLEAN
  /\ reqCookieHeader = << >>

\* One attempt builds its request.
DoRequest ==
  /\ UNCHANGED notRequest
  /\ \E u \in RequestURLs :
       /\ reqCookieHeader' = doRequestCookieHeader(customCookie, enableCookie, jar, u, now)
       /\ cookieRet' = [op |-> "doRequest", err |-> FALSE,
                        out |-> GetCookiesForURL(jar, u, now), arg |-> <<u>>]
  /\ UNCHANGED <<jar, now, cookieFile, backups, jarBefore, trip, customCookie, enableCookie>>

RequestNext ==
  \/ DoRequest

\* ------------------------------------------------------------------------
\* GofileHandler (gofile.go): a batch of share URLs and the records made of it
\* ------------------------------------------------------------------------
MaxBatches == 2
MaxURLs == 2

\* A share URL after gofileURLPattern was tried on it: whether it matched and
\* the content id it captured.  Two raw URLs can carry the same content id.
ShareURL(raw, matched, id) == [raw |-> raw, matched |-> matched, id |-> id]
URL_a == ShareURL("https://gofile.io/d/a", TRUE, "a")
URL_a_www == ShareURL("https://www.gofile.io/d/a", TRUE, "a")
URL_b == ShareURL("https://gofile.io/d/b", TRUE, "b")
URL_bad == ShareURL("https://gofile.io/x", FALSE, "")
ShareURLs == {URL_a, URL_a_www, URL_b, URL_bad}
ContentIDs == {"a", "b"}

\* extractGofileContentID: the captured id, "" when the pattern does not match.
extractGofileContentID(rawURL) == IF rawURL.matched THEN rawURL.id ELSE ""

\* A directory: whether it exists, its files and its sub-directories.
Dir(ex, files, dirs) == [ex |-> ex, files |-> files, dirs |-> dirs]
D_missing == Dir(FALSE, {}, << >>)
D_empty == Dir(TRUE, {}, << >>)
D_emptySub == Dir(TRUE, {}, <<D_empty>>)
D_deepFile == Dir(TRUE, {}, <<D_empty, Dir(TRUE, {"old"}, << >>)>>)
D_file == Dir(TRUE, {"old"}, << >>)
\* Only the digest sidecar of a file is left (gofileDigestPath).
D_sidecarOnly == Dir(TRUE, {"f.north2md.digest.json"}, << >>)
InitDirs == {D_missing, D_empty, D_emptySub, D_deepFile, D_file}

\* dirHasFiles: a file in the directory or in one of its sub-directories.
RECURSIVE dirHasFiles(_)
dirHasFiles(dir) ==
  /\ dir.ex
  /\ \/ dir.files # {}
     \/ \E k \in 1..Len(dir.dirs) : dirHasFiles(dir.dirs[k])

\* listFilesRecursive: the paths of the files below root, relative to root.
RECURSIVE listFilesRecursive(_)
listFilesRecursive(root) ==
  IF ~root.ex THEN {}
  ELSE {<<f>> : f \in root.files} \cup
       UNION {{<<k>> \o p : p \in listFilesRecursive(root.dirs[k])} : k \in 1..Len(root.dirs)}

\* A faulty variant of allContentDirsPresent: temporary files and digest
\* sidecars do not count.
allContentDirsPresent_NoTemp(dirs, batch) ==
  \A k \in 1..Len(batch) :
    /\ extractGofileContentID(batch[k]) # ""
    /\ listFilesRecursive(dirs[extractGofileContentID(batch[k])]) # {}
    /\ \E p \in listFilesRecursive(dirs[extractGofileContentID(batch[k])]) :
         p[Len(p)] \notin {"f.part", "g.part", "f.north2md.digest.json"}

\* A faulty variant of allContentDirsPresent: sub-directories are not entered.
allContentDirsPresent_TopOnly(dirs, batch) ==
  \A k \in 1..Len(batch) :
    /\ extractGofileContentID(batch[k]) # ""
    /\ dirs[extractGofileContentID(batch[k])].ex
    /\ dirs[extractGofileContentID(batch[k])].files # {}

\* allContentDirsPresent: every URL has a content id and a populated directory.
allContentDirsPresent(dirs, batch) ==
  \A k \in 1..Len(batch) :
    /\ extractGofileContentID(batch[k]) # ""
    /\ dirHasFiles(dirs[extractGofileContentID(batch[k])])

\* The files the content trees resolve to: two files in a, or one everywhere.
TwoFileRemote == [id \in ContentIDs |-> IF id = "a" THEN <<"f", "g">> ELSE <<"f">>]
OneFileRemote == [id \in ContentIDs |-> <<"f">>]

\* A faulty variant of upsertGofileRecord: the record is always appended.
upsertGofileRecord_Append(recs, record) == Append(recs, record)

\* upsertGofileRecord.
upsertGofileRecord(recs, record) ==
  IF \E k \in 1..Len(recs) : recs[k].URL = record.URL
  THEN LET k == CHOOSE j \in 1..Len(recs) :
                  /\ recs[j].URL = record.URL
                  /\ \A m \in 1..(j - 1) : recs[m].URL # record.URL
       IN  [recs EXCEPT ![k] = record]
  ELSE Append(recs, record)

\* A faulty variant of the record: a URL that was processed counts as downloaded.
GofileRecord_Always(rawURL, dir) ==
  [URL |-> rawURL.raw, ContentID |-> extractGofileContentID(rawURL),
   LocalDir |-> <<"gofile", extractGofileContentID(rawURL)>>,
   LocalFiles |-> listFilesRecursive(dir),
   Downloaded |-> TRUE,
   Error |-> ""]

\* The GofileFile record collectLocalFiles builds for one URL.
GofileRecord(rawURL, dir) ==
  [URL |-> rawURL.raw, ContentID |-> extractGofileContentID(rawURL),
   LocalDir |-> <<"gofile", extractGofileContentID(rawURL)>>,
   LocalFiles |-> listFilesRecursive(dir),
   Downloaded |-> listFilesRecursive(dir) # {},
   Error |-> IF listFilesRecursive(dir) = {} THEN "download_failed" ELSE ""]

\* collectLocalFiles: the records and the mapping after the URLs from k on.
RECURSIVE collectLocalFiles(_, _, _, _, _)
collectLocalFiles(dirs, batch, k, recs, map) ==
  IF k > Len(batch) THEN [records |-> recs, mapping |-> map]
  ELSE IF extractGofileContentID(batch[k]) = ""
  THEN collectLocalFiles(dirs, batch, k + 1, recs, map)
  ELSE LET record == GofileRecord(batch[k], dirs[extractGofileContentID(batch[k])])
       IN  collectLocalFiles(dirs, batch, k + 1, upsertGofileRecord(recs, record),
                             IF record.Downloaded /\ record.LocalDir # << >>
                             THEN map \cup {<<batch[k].raw, record.LocalDir>>}
                             ELSE map)

\* mappingFromRecords: the local directories of the downloaded records of the URLs.
mappingFromRecords(recs, batch) ==
  LET good(raw) == {m \in 1..Len(recs) :
                      /\ recs[m].URL = raw
                      /\ recs[m].URL # "" /\ recs[m].Downloaded /\ recs[m].LocalDir # << >>}
      last(raw) == {m \in good(raw) : \A n \in good(raw) : n <= m}
  IN  UNION {{<<batch[k].raw, recs[m].LocalDir>> : m \in last(batch[k].raw)} :
               k \in 1..Len(batch)}

\* ExtractGofileLinks hands over the URLs of the document without
\* repetition and sorted.
urlRank(u) == CHOOSE n \in 1..4 : <<URL_a, URL_a_www, URL_b, URL_bad>>[n] = u
Batches ==
  {b \in UNION {[1..n -> ShareURLs] : n \in 1..MaxURLs} :
     \A p, q \in 1..Len(b) : p < q => urlRank(b[p]) < urlRank(b[q])}

BatchIdle ==
  /\ gdirs = [id \in ContentIDs |-> D_missing]
  /\ remote = OneFileRemote
  /\ hasToken = FALSE
  /\ skipExisting = FALSE
  /\ urls = << >>
  /\ bpc = "idle"
  /\ bidx = 1
  /\ berrs = << >>
  /\ bret = "none"
  /\ batchRequests = 0
  /\ attempted = {}
  /\ records = << >>
  /\ recordsBefore = << >>
  /\ mapping = {}
  /\ batches = 0

BatchInit ==
  /\ gdirs \in {g \in [ContentIDs -> InitDirs] : g["b"] \in {D_missing, D_file}}
  /\ remote = TwoFileRemote
  /\ hasToken \in BOOLEAN
  /\ skipExisting \in BOOLEAN
  /\ urls \in Batches
  /\ bpc = "start"
  /\ bidx = 1
  /\ berrs = << >>
  /\ bret = "none"
  /\ batchRequests = 0
  /\ attempted = {}
  /\ records = << >>
  /\ recordsBefore = << >>
  /\ mapping = {}
  /\ batches = 1

\* A faulty variant of lines 224-227: the error of the token is not returned.
afterEnsureToken_Ignore(failed) == "loop"

\* downloadBatch, lines 224-227: an error of ensureAccountToken is returned.
afterEnsureToken(failed) == IF failed THEN "returned" ELSE "loop"

\* downloadBatch up to its loop: the skip-existing shortcut, then the token.
BatchBegin ==
  /\ UNCHANGED notBatch
  /\ bpc = "start"
  /\ IF skipExisting /\ allContentDirsPresent(gdirs, urls)
     THEN bpc' = "returned" /\ bret' = "nil" /\ UNCHANGED <<batchRequests, hasToken>>
     ELSE IF hasToken
     THEN bpc' = "loop" /\ UNCHANGED <<bret, batchRequests, hasToken>>
     ELSE /\ batchRequests' = batchRequests + 1
          /\ \E failed \in BOOLEAN :
               /\ bpc' = afterEnsureToken(failed)
               /\ IF failed THEN bret' = "token" /\ UNCHANGED hasToken
                  ELSE hasToken' = TRUE /\ UNCHANGED bret
  /\ UNCHANGED <<gdirs, remote, skipExisting, urls, bidx, berrs, attempted, records, recordsBefore,
                 mapping, batches>>

\* What one file download leaves in the content directory.
FileOutcomes == {"ok", "partial"}
PartName(f) == IF f = "f" THEN "f.part" ELSE "g.part"
afterDownloads(dir, files, outcome) ==
  [dir EXCEPT !.files = @ \cup {files[k] : k \in {j \in 1..Len(files) : outcome[j] = "ok"}}
                          \cup {PartName(files[k]) : k \in {j \in 1..Len(files) : outcome[j] = "partial"}}]
downloadErrors(rawURL, files, outcome) ==
  [k \in 1..Len(SelectSeq([j \in 1..Len(files) |-> j], LAMBDA j : outcome[j] # "ok")) |->
     [kind |-> "download", url |-> rawURL.raw,
      file |-> files[SelectSeq([j \in 1..Len(files) |-> j], LAMBDA j : outcome[j] # "ok")[k]]]]

\* A faulty variant of the loop: the first failure ends it.
continueAfter_Break(failed) == IF failed THEN "returned" ELSE "loop"

\* Where the loop of downloadBatch goes after a URL: on, failed or not.
continueAfter(failed) == "loop"

\* One round of the loop of downloadBatch: the URL at bidx.
BatchURL ==
  /\ UNCHANGED notBatch
  /\ bpc = "loop"
  /\ bidx <= Len(urls)
  /\ LET rawURL == urls[bidx]
         contentID == extractGofileContentID(rawURL)
         files == IF contentID = "" THEN << >> ELSE remote[contentID]
     IN  IF contentID = ""
         THEN /\ berrs' = Append(berrs, [kind |-> "invalid", url |-> rawURL.raw, file |-> ""])
              /\ UNCHANGED <<gdirs, batchRequests>>
         ELSE \/ /\ berrs' = Append(berrs, [kind |-> "mkdir", url |-> rawURL.raw, file |-> ""])
                 /\ UNCHANGED <<gdirs, batchRequests>>
              \/ /\ berrs' = Append(berrs, [kind |-> "tree", url |-> rawURL.raw, file |-> ""])
                 /\ gdirs' = [gdirs EXCEPT ![contentID].ex = TRUE]
                 /\ batchRequests' = batchRequests + 1
              \/ \E outcome \in [1..Len(files) -> FileOutcomes] :
                   /\ berrs' = berrs \o downloadErrors(rawURL, files, outcome)
                   /\ gdirs' = [gdirs EXCEPT ![contentID] =
                                  afterDownloads([@ EXCEPT !.ex = TRUE], files, outcome)]
                   /\ batchRequests' = batchRequests + 1 + Len(files)
  /\ attempted' = attempted \cup {bidx}
  /\ bidx' = bidx + 1
  /\ bpc' = continueAfter(berrs' # berrs)
  /\ bret' = IF bpc' = "returned" THEN "joined" ELSE bret
  /\ UNCHANGED <<remote, hasToken, skipExisting, urls, records, recordsBefore, mapping, batches>>

\* downloadBatch returns errors.Join(errs...).
BatchReturn ==
  /\ UNCHANGED notBatch
  /\ bpc = "loop"
  /\ bidx > Len(urls)
  /\ bpc' = "returned"
  /\ bret' = IF berrs = << >> THEN "nil" ELSE "joined"
  /\ UNCHANGED <<gdirs, remote, hasToken, skipExisting, urls, bidx, berrs, batchRequests, attempted, records,
                 recordsBefore, mapping, batches>>

\* DownloadAndAnnotateGofileLinks after downloadBatch: collectLocalFiles.
BatchCollect ==
  /\ UNCHANGED notBatch
  /\ bpc = "returned"
  /\ LET c == collectLocalFiles(gdirs, urls, 1, records, {})
     IN  records' = c.records /\ mapping' = c.mapping
  /\ recordsBefore' = records
  /\ bpc' = "collected"
  /\ UNCHANGED <<gdirs, remote, hasToken, skipExisting, urls, bidx, berrs, bret, batchRequests, attempted, batches>>

\* The next call of DownloadAndAnnotateGofileLinks with downloads enabled.
BatchAgain ==
  /\ UNCHANGED notBatch
  /\ bpc = "collected"
  /\ batches < MaxBatches
  /\ batches' = batches + 1
  /\ recordsBefore' = records
  /\ urls' \in Batches
  /\ bpc' = "start"
  /\ bidx' = 1
  /\ berrs' = << >>
  /\ bret' = "none"
  /\ batchRequests' = 0
  /\ attempted' = {}
  /\ mapping' = {}
  /\ UNCHANGED <<gdirs, remote, hasToken, skipExisting, records>>

\* A call of DownloadAndAnnotateGofileLinks with downloads disabled.
BatchAnnotateOnly ==
  /\ UNCHANGED notBatch
  /\ bpc = "collected"
  /\ mapping' = mappingFromRecords(records, urls)
  /\ bpc' = "annotated"
  /\ recordsBefore' = records
  /\ UNCHANGED <<gdirs, remote, hasToken, skipExisting, urls, bidx, berrs, bret, batchRequests, attempted, records, batches>>

\* One call of DownloadAndAnnotateGofileLinks, and a later call with
\* downloads disabled.
BatchNext ==
  \/ BatchBegin
  \/ BatchURL
  \/ BatchReturn
  \/ BatchCollect
  \/ BatchAnnotateOnly

\* Several calls on the same post, from an empty record list.
RecordInit ==
  /\ gdirs \in {g \in [ContentIDs -> {D_missing, D_deepFile, D_sidecarOnly}] :
                  g["b"] = D_missing}
  /\ remote = OneFileRemote
  /\ hasToken = TRUE
  /\ skipExisting \in BOOLEAN
  /\ urls \in Batches
  /\ bpc = "start"
  /\ bidx = 1
  /\ berrs = << >>
  /\ bret = "none"
  /\ batchRequests = 0
  /\ attempted = {}
  /\ records = << >>
  /\ recordsBefore = << >>
  /\ mapping = {}
  /\ batches = 1

RecordNext ==
  \/ BatchBegin
  \/ BatchURL
  \/ BatchReturn
  \/ BatchCollect
  \/ BatchAgain

\* ------------------------------------------------------------------------
\* buildContentTree and resolveNamingCollision (one share URL)
\* A name is a sequence of characters and a path a sequence of names.  The
\* content requests are taken to succeed; the only failure of a node is a
\* password that was not accepted.
\* ------------------------------------------------------------------------
MaxKids == 3

Name_a == <<"a">>
Name_at == <<"a", ".", "t">>
Name_a1t == <<"a", "(", "1", ")", ".", "t">>
RootID == <<"r">>

DigitChars == <<"0", "1", "2", "3", "4", "5", "6", "7", "8", "9">>

RECURSIVE Itoa(_)
Itoa(n) ==
  IF n < 10 THEN <<DigitChars[n + 1]>>
  ELSE Itoa(n \div 10) \o <<DigitChars[(n % 10) + 1]>>

\* filepath.Ext of a path: the suffix of its last element that starts at the
\* last dot, empty when there is no dot.
Ext(name) ==
  LET dots == {k \in 1..Len(name) : name[k] = "."}
  IN  IF dots = {} THEN <<>>
      ELSE SubSeq(name, CHOOSE k \in dots : \A d \in dots : d <= k, Len(name))

\* pathingCount is a function from the paths asked for so far to a count.
\* The result is the local path and the updated pathingCount.
resolveNamingCollision(pathingCount, parentDir, childName, isDir) ==
  LET targetPath == Append(parentDir, childName)
      count == pathingCount[targetPath] + 1
      suffix == <<"(">> \o Itoa(count) \o <<")">>
      ext == Ext(childName)
      base == SubSeq(childName, 1, Len(childName) - Len(ext))
  IN  IF targetPath \notin DOMAIN pathingCount
        THEN [path |-> targetPath,
              pc   |-> [p \in DOMAIN pathingCount \cup {targetPath} |->
                          IF p = targetPath THEN 0 ELSE pathingCount[p]]]
        ELSE [path |-> Append(parentDir,
                              IF isDir THEN childName \o suffix
                              ELSE base \o suffix \o ext),
              pc   |-> [pathingCount EXCEPT ![targetPath] = count]]

\* What fetchContent returns for a node, with its children in key order.
Content(id, type, name, locked, children) ==
  [ID |-> id, Type |-> type, Name |-> name, Locked |-> locked,
   Children |-> children]
FileNode(name) == Content(<<"x">>, "file", name, FALSE, <<>>)

RECURSIVE buildContentTree(_, _, _)
RECURSIVE buildChildren(_, _, _, _, _)
\* The loop over the sorted keys of a folder (lines 342-361).
buildChildren(kids, k, absolutePath, pathingCount, files) ==
  IF k > Len(kids) THEN [files |-> files, err |-> FALSE, pc |-> pathingCount]
  ELSE
    LET child == kids[k]
    IN  IF child.Type = "folder"
          THEN LET sub == buildContentTree(absolutePath, child, pathingCount)
               IN  IF sub.err
                     THEN [files |-> <<>>, err |-> TRUE, pc |-> sub.pc]
                     ELSE buildChildren(kids, k + 1, absolutePath, sub.pc,
                                        files \o sub.files)
          ELSE LET r == resolveNamingCollision(pathingCount, absolutePath,
                                               child.Name, FALSE)
               IN  buildChildren(kids, k + 1, absolutePath, r.pc,
                                 Append(files, r.path))

buildContentTree(parentDir, content, pathingCount) ==
  IF content.Locked
    THEN [files |-> <<>>, err |-> TRUE, pc |-> pathingCount]
  ELSE IF content.Type # "folder"
    THEN LET r == resolveNamingCollision(pathingCount, parentDir,
                                         content.Name, FALSE)
         IN  [files |-> <<r.path>>, err |-> FALSE, pc |-> r.pc]
  ELSE
    LET r == resolveNamingCollision(pathingCount, parentDir,
                                    content.Name, TRUE)
        absolutePath == IF parentDir[Len(parentDir)] = content.ID
                          THEN parentDir ELSE r.path
    IN  buildChildren(content.Children, 1, absolutePath, r.pc, <<>>)

\* The children a root folder is given here: files whose names collide with
\* each other or with a generated name, a folder and a protected folder.
ChildNodes ==
  { FileNode(Name_at), FileNode(Name_a1t), FileNode(Name_a),
    Content(<<"f">>, "folder", Name_a, FALSE, <<FileNode(Name_at)>>),
    Content(<<"l">>, "folder", <<"s">>, TRUE, <<>>) }

\* Children are keyed by their id, so a folder occurs once.
ChildLists ==
  { kids \in UNION {[1..n -> ChildNodes] : n \in 0..MaxKids} :
      \A p, q \in 1..Len(kids) :
        (kids[p].Type = "folder" /\ kids[p] = kids[q]) => p = q }

TreeIdle ==
  /\ ttree = Content(RootID, "folder", <<"n">>, FALSE, <<>>)
  /\ tfiles = <<>>
  /\ tret = "none"
  /\ tpc = "start"
  /\ tnext = 1
  /\ tdisk = {}

TreeInit ==
  /\ ttree \in {Content(RootID, "folder", <<"n">>, FALSE, kids) :
                  kids \in ChildLists}
  /\ tfiles = <<>>
  /\ tret = "none"
  /\ tpc = "start"
  /\ tnext = 1
  /\ tdisk = {}

\* downloadBatch, lines 239-243: the content directory is <baseDir>/<id> and
\* pathingCount starts empty.
TreeResolve ==
  /\ tpc = "start"
  /\ LET r == buildContentTree(<<RootID>>, ttree, [p \in {} |-> 0])
     IN  /\ tfiles' = r.files
         /\ tret' = IF r.err THEN "error" ELSE "ok"
  /\ tpc' = "resolved"
  /\ UNCHANGED <<ttree, tnext, tdisk>>
  /\ UNCHANGED notTree

\* downloadBatch, lines 245-249: one file of the result is downloaded to its
\* local path.
TreeDownload ==
  /\ tpc = "resolved"
  /\ tnext <= Len(tfiles)
  /\ tdisk' = tdisk \cup {tfiles[tnext]}
  /\ tnext' = tnext + 1
  /\ UNCHANGED <<ttree, tfiles, tret, tpc>>
  /\ UNCHANGED notTree

TreeDone ==
  /\ tpc = "resolved"
  /\ tnext > Len(tfiles)
  /\ tpc' = "done"
  /\ UNCHANGED <<ttree, tfiles, tret, tnext, tdisk>>
  /\ UNCHANGED notTree

TreeNext ==
  \/ TreeResolve
  \/ TreeDownload
  \/ TreeDone

\* ------------------------------------------------------------------------
\* decodeJSONResponse and hasGzipEncoding, as fetchContent uses them
\* A body is a sequence of tokens.  A gzip stream is the two magic bytes,
\* the compressed payload and a trailer; a JSON text is "{", a status, "}".
\* ------------------------------------------------------------------------
GzipMagic == <<"1f", "8b">>
GzipTrailer == "crc"
Gzip(payload) == GzipMagic \o payload \o <<GzipTrailer>>

J_ok == <<"{", "ok", "}">>
J_error == <<"{", "error", "}">>
J_cut == <<"{", "ok">>

H_gzip == <<"g", "z", "i", "p">>
H_xgzip == <<"x", "-", "g", "z", "i", "p">>
H_GZIP == <<" ", "G", "Z", "I", "P", " ">>
H_list == <<"b", "r", ",", " ", "x", "-", "g", "z", "i", "p">>
H_br == <<"b", "r">>
H_gzip2 == <<"g", "z", "i", "p", "2">>

\* strings.Split(s, ","), from the left.
RECURSIVE SplitComma(_)
SplitComma(s) ==
  LET commas == {k \in 1..Len(s) : s[k] = ","}
  IN  IF commas = {} THEN <<s>>
      ELSE LET c == CHOOSE k \in commas : \A d \in commas : k <= d
           IN  <<SubSeq(s, 1, c - 1)>> \o SplitComma(SubSeq(s, c + 1, Len(s)))

hasGzipEncoding(contentEncoding) ==
  IF TrimSpace(contentEncoding) = << >> THEN FALSE
  ELSE \E k \in 1..Len(SplitComma(contentEncoding)) :
         LET token == ToLower(TrimSpace(SplitComma(contentEncoding)[k]))
         IN  token = H_gzip \/ token = H_xgzip

\* json.NewDecoder(payload).Decode: the first JSON value of the payload, or
\* an error when the payload does not begin with a complete value.
jsonDecode(payload) ==
  IF Len(payload) >= 3 /\ payload[1] = "{" /\ payload[3] = "}"
       /\ payload[2] \in {"ok", "error"}
    THEN [err |-> ErrNil, Status |-> payload[2]]
    ELSE [err |-> "json", Status |-> ""]

\* gzip.NewReader reads the header; the reader then yields the payload, and
\* an error at its end when the trailer is missing.  The decoder stops at
\* the end of the first value.
gzipPayload(body) ==
  IF body[Len(body)] = GzipTrailer THEN SubSeq(body, 3, Len(body) - 1)
  ELSE SubSeq(body, 3, Len(body))

\* A faulty variant of decodeJSONResponse: the body is not looked at.
decodeJSONResponse_HeaderOnly(body, contentEncoding) ==
  IF hasGzipEncoding(contentEncoding)
    THEN IF ~HasPrefix(body, GzipMagic)
           THEN [err |-> "failed to create gzip reader", Status |-> "", gzip |-> TRUE]
           ELSE [err |-> jsonDecode(gzipPayload(body)).err,
                 Status |-> jsonDecode(gzipPayload(body)).Status, gzip |-> TRUE]
    ELSE [err |-> jsonDecode(body).err, Status |-> jsonDecode(body).Status,
          gzip |-> FALSE]

decodeJSONResponse(body, contentEncoding) ==
  LET useGzip == hasGzipEncoding(contentEncoding) \/ HasPrefix(body, GzipMagic)
  IN  IF useGzip
        THEN IF ~HasPrefix(body, GzipMagic)
               THEN [err |-> "failed to create gzip reader", Status |-> "",
                     gzip |-> TRUE]
               ELSE [err |-> jsonDecode(gzipPayload(body)).err,
                     Status |-> jsonDecode(gzipPayload(body)).Status,
                     gzip |-> TRUE]
        ELSE [err |-> jsonDecode(body).err, Status |-> jsonDecode(body).Status,
              gzip |-> FALSE]

ApiEncodings == {<< >>, H_gzip, H_GZIP, H_list, H_br, H_gzip2}
ApiBodies ==
  { << >>, J_ok, J_error, J_cut, Gzip(J_ok), Gzip(J_error), Gzip(J_cut),
    GzipMagic, GzipMagic \o J_ok, <<"1f">> }
ApiStatuses == {200, 404}

NoApiRet == [err |-> ErrNil, data |-> "", gzip |-> FALSE]

ApiIdle ==
  /\ apiResp = [status |-> 0, enc |-> << >>, body |-> << >>]
  /\ apiRet = NoApiRet
  /\ apc = "off"

ApiInit ==
  /\ apiResp \in [status : ApiStatuses, enc : ApiEncodings, body : ApiBodies]
  /\ apiRet = NoApiRet
  /\ apc = "start"

\* fetchContent, lines 390-409, once the answer is there: the status check,
\* the decoding of the envelope and the check of its status.
FetchContent ==
  /\ apc = "start"
  /\ apc' = "done"
  /\ LET d == decodeJSONResponse(apiResp.body, apiResp.enc)
     IN  apiRet' =
           IF apiResp.status < 200 \/ apiResp.status >= 300
             THEN [err |-> "content request failed with status", data |-> "",
                   gzip |-> FALSE]
           ELSE IF d.err # ErrNil
             THEN [err |-> "failed to parse content response", data |-> "",
                   gzip |-> d.gzip]
           ELSE IF d.Status # "ok"
             THEN [err |-> "content response status", data |-> "", gzip |-> d.gzip]
           ELSE [err |-> ErrNil, data |-> "content", gzip |-> d.gzip]
  /\ UNCHANGED apiResp
  /\ UNCHANGED notApi

ApiNext == FetchContent

\* ------------------------------------------------------------------------
\* ImageHandler.DownloadAndCacheImages
\* A document is the sequence of the destinations of its image links; the
\* text between them is copied as it is.
\* ------------------------------------------------------------------------
MaxImgCalls == 2
MaxDocLen == 2

ImageURLs == {"u1", "u2"}
\* A destination as written in the document, and one inside the cache
\* directory.
Dest(name) == [dir |-> "", name |-> name]
CachedDest(cacheDir, fname) == [dir |-> cacheDir, name |-> fname]

isRemoteURL(name) == name \in ImageURLs

Image(url, local, downloaded) ==
  [URL |-> url, Local |-> local, Downloaded |-> downloaded]

\* processDownloadedImage: the file name is the MD5 of the data and the
\* extension of the URL.
CacheFileName(url) == IF url = "u1" THEN "h1.jpg" ELSE "h2.jpg"

\* Lines 89-97: the usable images of the post; a later entry of a URL
\* replaces an earlier one.
RECURSIVE existingImages(_)
existingImages(images) ==
  IF images = << >> THEN {}
  ELSE LET img == images[Len(images)]
           before == existingImages(SubSeq(images, 1, Len(images) - 1))
       IN  IF ~img.Downloaded \/ img.URL = "" \/ img.Local = "" THEN before
           ELSE {m \in before : m[1] # img.URL} \cup {<<img.URL, img.Local>>}

extractRemoteImageURLs(doc) ==
  {doc[k].name : k \in {j \in 1..Len(doc) : isRemoteURL(doc[j].name)}}

replaceImageURLs(doc, imap) ==
  [k \in 1..Len(doc) |->
     IF \E m \in imap : m[1] = doc[k].name
       THEN CachedDest("images", (CHOOSE m \in imap : m[1] = doc[k].name)[2])
       ELSE doc[k]]

\* A faulty variant of line 88: the mapping of the previous call is kept.
newMapping_Kept(old) == old

\* Line 88: mapping := make(map[string]string).
newMapping(old) == {}

\* The results of the workers arrive in any order (lines 153-160).
ResultOrders(urlSet) ==
  {q \in [1..Cardinality(urlSet) -> urlSet] : {q[k] : k \in 1..Len(q)} = urlSet}

Docs == UNION {[1..n -> {Dest(d) : d \in ImageURLs \cup {"img/local.png"}}] : n \in 1..MaxDocLen}
PostImages ==
  { << >>, <<Image("u1", "one.jpg", TRUE)>>, <<Image("u1", "", TRUE)>>,
    <<Image("u2", "two.jpg", FALSE)>>, <<Image("u2", "two.jpg", TRUE)>> }

ImgIdle ==
  /\ idoc = << >>
  /\ ipost = << >>
  /\ ipostBefore = << >>
  /\ idownload = TRUE
  /\ imapping = {}
  /\ iout = << >>
  /\ iprev = {}
  /\ icalls = 0
  /\ ipc = "off"

ImgInit ==
  /\ idoc \in Docs
  /\ ipost \in PostImages
  /\ ipostBefore = ipost
  /\ idownload = TRUE
  /\ imapping = {}
  /\ iout = << >>
  /\ iprev = {}
  /\ icalls = 1
  /\ ipc = "start"

SetDownloadEnabled ==
  /\ ipc = "start"
  /\ \E enabled \in BOOLEAN : idownload' = enabled
  /\ idownload' # idownload
  /\ UNCHANGED <<idoc, ipost, ipostBefore, imapping, iout, iprev, icalls, ipc>>
  /\ UNCHANGED notImg

\* One call.  Every pending URL is downloaded when downloading is on; a
\* download (or the write of its file) succeeds or fails.
DownloadAndCacheImages ==
  /\ ipc = "start"
  /\ LET existing == existingImages(ipost)
         imageURLs == extractRemoteImageURLs(idoc)
         reused == {m \in existing : m[1] \in imageURLs}
         pending == {u \in imageURLs : \A m \in existing : m[1] # u}
     IN  IF imageURLs = {} THEN
           /\ iout' = idoc
           /\ imapping' = newMapping(imapping)
           /\ UNCHANGED ipost
         ELSE
           \E ok \in SUBSET pending :
             /\ (~idownload) => ok = {}
             /\ LET base == newMapping(imapping)
                    set == reused \cup {<<u, CacheFileName(u)>> : u \in ok}
                    imap == {m \in base : \A n \in set : n[1] # m[1]} \cup set
                IN  /\ imapping' = imap
                    /\ iout' = replaceImageURLs(idoc, imap)
                    /\ \E q \in ResultOrders(ok) :
                         ipost' = ipost \o [k \in 1..Len(q) |->
                                             Image(q[k], CacheFileName(q[k]), TRUE)]
  /\ ipostBefore' = ipost
  /\ ipc' = "returned"
  /\ UNCHANGED <<idoc, idownload, iprev, icalls>>
  /\ UNCHANGED notImg

\* The handler is used for another document and post.
ImgNextCall ==
  /\ ipc = "returned"
  /\ icalls < MaxImgCalls
  /\ icalls' = icalls + 1
  /\ iprev' = iprev \cup {m[1] : m \in imapping}
  /\ idoc' \in Docs
  /\ ipost' \in PostImages \cup {ipost}
  /\ ipostBefore' = ipost'
  /\ iout' = << >>
  /\ ipc' = "start"
  /\ UNCHANGED <<idownload, imapping>>
  /\ UNCHANGED notImg

ImgNext ==
  \/ SetDownloadEnabled
  \/ DownloadAndCacheImages
  \/ ImgNextCall

\* ------------------------------------------------------------------------
\* The account token (gofile.go, ensureAccountToken)
\* ------------------------------------------------------------------------
MaxTokenCalls == 4

Tok_none == << >>
Tok_blank == <<" ">>
Tok_cfg == <<"c", "f", "g">>
Tok_t1 == <<"t", "1">>
Tok_padded == <<" ", "t", "2">>

\* What the account request can come back with: a transport error of
\* doRequestWithRetry, the status, the envelope and the token in its data.
AccountAnswers ==
  [neterr : BOOLEAN, status : {200, 403}, envelope : {"ok", "error", "cut"},
   token : {Tok_none, Tok_blank, Tok_t1, Tok_padded}]

NoTokRet == [token |-> Tok_none, err |-> "none"]

\* A faulty variant of line 260: the cached token is not looked at.
needsAccountRequest_Always(tok) == TRUE

\* ensureAccountToken, line 260: a token that is not blank is returned as it is.
needsAccountRequest(tok) == TrimSpace(tok) = << >>

\* ensureAccountToken, lines 270-297, once the request was sent: the error it
\* returns, "nil" when the token of the answer is taken.
accountError(ans) ==
  IF ans.neterr THEN "account request failed"
  ELSE IF ans.status < 200 \/ ans.status >= 300 THEN "account request failed with status"
  ELSE IF ans.envelope = "cut" THEN "failed to parse account response"
  ELSE IF ans.envelope # "ok" THEN "account response status"
  ELSE IF TrimSpace(ans.token) = << >> THEN "account token is empty"
  ELSE "nil"

TokenIdle ==
  /\ ghToken = Tok_none
  /\ configToken = Tok_none
  /\ tokCalls = 0
  /\ accountRequests = 0
  /\ acquisitions = 0
  /\ tokRet = NoTokRet
  /\ authHeader = Tok_none

\* NewGofileHandler, line 93: the token of the configuration, if any.
TokenInit ==
  /\ configToken \in {Tok_none, Tok_blank, Tok_cfg}
  /\ ghToken = configToken
  /\ tokCalls = 0
  /\ accountRequests = 0
  /\ acquisitions = 0
  /\ tokRet = NoTokRet
  /\ authHeader = Tok_none

\* ensureAccountToken, lines 259-298, as downloadBatch calls it at line 224.
EnsureAccountToken ==
  /\ tokCalls < MaxTokenCalls
  /\ tokCalls' = tokCalls + 1
  /\ IF ~needsAccountRequest(ghToken)
     THEN /\ tokRet' = [token |-> ghToken, err |-> "nil"]
          /\ UNCHANGED <<ghToken, accountRequests, acquisitions>>
     ELSE /\ accountRequests' = accountRequests + 1
          /\ \E ans \in AccountAnswers :
               IF accountError(ans) = "nil"
               THEN /\ ghToken' = ans.token
                    /\ acquisitions' = acquisitions + 1
                    /\ tokRet' = [token |-> ans.token, err |-> "nil"]
               ELSE /\ tokRet' = [token |-> Tok_none, err |-> accountError(ans)]
                    /\ UNCHANGED <<ghToken, acquisitions>>
  /\ UNCHANGED <<configToken, authHeader>>
  /\ UNCHANGED notToken

\* downloadFileAttempt, line 522: a download request carries gh.token.
TokenRequest ==
  /\ tokCalls > 0
  /\ tokRet.err = "nil"
  /\ authHeader' = ghToken
  /\ UNCHANGED <<ghToken, configToken, tokCalls, accountRequests, acquisitions, tokRet>>
  /\ UNCHANGED notToken

TokenNext ==
  \/ EnsureAccountToken
  \/ TokenRequest

\* ------------------------------------------------------------------------
\* The specifications
\* ------------------------------------------------------------------------
DownloadInit == DLInit /\ FetchIdle /\ PagesIdle /\ StrictIdle /\ CookieIdle /\ RaceIdle /\ ReqIdle /\ BatchIdle /\ TreeIdle /\ ApiIdle /\ ImgIdle /\ TokenIdle
DownloadSpec == DownloadInit /\ [][DLNext]_vars

FetchSpecInit == FetchInit /\ DLIdle /\ PagesIdle /\ StrictIdle /\ CookieIdle /\ RaceIdle /\ ReqIdle /\ BatchIdle /\ TreeIdle /\ ApiIdle /\ ImgIdle /\ TokenIdle
FetchSpec == FetchSpecInit /\ [][FetchNext]_vars

PagesSpecInit == PagesInit /\ DLIdle /\ FetchIdle /\ StrictIdle /\ CookieIdle /\ RaceIdle /\ ReqIdle /\ BatchIdle /\ TreeIdle /\ ApiIdle /\ ImgIdle /\ TokenIdle
PagesSpec == PagesSpecInit /\ [][PagesNext]_vars

\* The same with the scheduler's guarantee: while a goroutine of the pool
\* can take a step, some step is taken.
PagesFairSpec == PagesSpecInit /\ [][PagesNext]_vars /\ WF_vars(PagesNext)

StrictPagesInit == PagesInit /\ StrictInit /\ DLIdle /\ FetchIdle /\ CookieIdle /\ RaceIdle /\ ReqIdle /\ BatchIdle /\ TreeIdle /\ ApiIdle /\ ImgIdle /\ TokenIdle
StrictPagesSpec == StrictPagesInit /\ [][StrictPagesNext]_vars

CookieRaceInit == RaceInit /\ DLIdle /\ FetchIdle /\ PagesIdle /\ StrictIdle /\ ReqIdle /\ BatchIdle /\ TreeIdle /\ ApiIdle /\ ImgIdle /\ TokenIdle
CookieRaceSpec == CookieRaceInit /\ [][RaceNext]_vars

CookieSpecInit == CookieInit /\ RaceIdle /\ DLIdle /\ FetchIdle /\ PagesIdle /\ StrictIdle /\ ReqIdle /\ BatchIdle /\ TreeIdle /\ ApiIdle /\ ImgIdle /\ TokenIdle
CookieSpec == CookieSpecInit /\ [][CookieNext]_vars

UpsertSpecInit == CookieIdle /\ RaceIdle /\ DLIdle /\ FetchIdle /\ PagesIdle /\ StrictIdle /\ ReqIdle /\ BatchIdle /\ TreeIdle /\ ApiIdle /\ ImgIdle /\ TokenIdle
UpsertSpec == UpsertSpecInit /\ [][UpsertNext]_vars

LookupSpecInit == LookupInit /\ RaceIdle /\ DLIdle /\ FetchIdle /\ PagesIdle /\ StrictIdle /\ ReqIdle /\ BatchIdle /\ TreeIdle /\ ApiIdle /\ ImgIdle /\ TokenIdle
LookupSpec == LookupSpecInit /\ [][LookupNext]_vars

StoreSpec == CookieSpecInit /\ [][StoreNext]_vars

RequestSpecInit == RequestInit /\ RaceIdle /\ DLIdle /\ FetchIdle /\ PagesIdle /\ StrictIdle /\ BatchIdle /\ TreeIdle /\ ApiIdle /\ ImgIdle /\ TokenIdle
RequestSpec == RequestSpecInit /\ [][RequestNext]_vars

BatchSpecInit == BatchInit /\ DLIdle /\ FetchIdle /\ PagesIdle /\ StrictIdle /\ CookieIdle /\ RaceIdle /\ ReqIdle /\ TreeIdle /\ ApiIdle /\ ImgIdle /\ TokenIdle
BatchSpec == BatchSpecInit /\ [][BatchNext]_vars

RecordSpecInit == RecordInit /\ DLIdle /\ FetchIdle /\ PagesIdle /\ StrictIdle /\ CookieIdle /\ RaceIdle /\ ReqIdle /\ TreeIdle /\ ApiIdle /\ ImgIdle /\ TokenIdle
RecordSpec == RecordSpecInit /\ [][RecordNext]_vars

TreeSpecInit == TreeInit /\ DLIdle /\ FetchIdle /\ PagesIdle /\ StrictIdle /\ CookieIdle /\ RaceIdle /\ ReqIdle /\ BatchIdle /\ ApiIdle /\ ImgIdle /\ TokenIdle
TreeSpec == TreeSpecInit /\ [][TreeNext]_vars

ApiSpecInit == ApiInit /\ DLIdle /\ FetchIdle /\ PagesIdle /\ StrictIdle /\ CookieIdle /\ RaceIdle /\ ReqIdle /\ BatchIdle /\ TreeIdle /\ ImgIdle /\ TokenIdle
ApiSpec == ApiSpecInit /\ [][ApiNext]_vars

ImgSpecInit == ImgInit /\ DLIdle /\ FetchIdle /\ PagesIdle /\ StrictIdle /\ CookieIdle /\ RaceIdle /\ ReqIdle /\ BatchIdle /\ TreeIdle /\ ApiIdle /\ TokenIdle
ImgSpec == ImgSpecInit /\ [][ImgNext]_vars

TokenSpecInit == TokenInit /\ DLIdle /\ FetchIdle /\ PagesIdle /\ StrictIdle /\ CookieIdle /\ RaceIdle /\ ReqIdle /\ BatchIdle /\ TreeIdle /\ ApiIdle /\ ImgIdle
TokenSpec == TokenSpecInit /\ [][TokenNext]_vars

\* ========================================================================
\* Claims about downloadFile (DownloadSpec)
\* ========================================================================
DigestMatchesRemote(f) ==
  /\ (file.Size > 0 => Len(f.data) = file.Size)
  /\ (~file.MD5.empty => file.MD5.h = f.data)

SidecarIsDigestOf(f) ==
  /\ sidecar.ex
  /\ sidecar.valid
  /\ sidecar.Size = Len(f.data)
  /\ ~sidecar.MD5.empty
  /\ sidecar.MD5.h = f.data

\* C1: whenever downloadFile returns without error, the final file exists, a
\* sidecar exists, the sidecar holds the size and MD5 of the file's bytes, and
\* both agree with the remote-declared size and MD5 where declared.
C1_SuccessImpliesConsistentSidecar ==
  (pc = "done" /\ result.ok) =>
    /\ finalFile.ex
    /\ SidecarIsDigestOf(finalFile)
    /\ DigestMatchesRemote(finalFile)

C1_Witness ==
  /\ pc = "done"
  /\ result.ok
  /\ requests >= 1
  /\ file.Size > 0
  /\ ~file.MD5.empty
  /\ finalFile.ex
  /\ sidecar.ex

\* C2: with a .part file of N bytes and a 200 answer carrying the whole
\* M-byte body to the ranged request, the .part file is truncated and the
\* final file holds exactly the body, never the N old bytes followed by it.
C2_RangeIgnoredRestartsFromZero ==
  (rangeHdr > 0 /\ resp.status = 200) =>
    /\ (pc = "written" => partFile = FileOf(resp.body))
    /\ (pc = "renamed" => finalFile = FileOf(resp.body) /\ ~partFile.ex)

C2_Witness ==
  /\ pc = "renamed"
  /\ rangeHdr = 1
  /\ resp.status = 200
  /\ resp.body = S_ab
  /\ finalFile = FileOf(S_ab)

\* C3 as stated: a corrupt final file is deleted with its sidecar, exactly one
\* request is made, it has no Range header, and the call ends with a final
\* file whose digest matches the remote.
C3_Original ==
  (pc = "done" /\ corrupt) =>
    /\ result.ok
    /\ requests = 1
    /\ rangeReqs = 0
    /\ finalFile.ex
    /\ DigestMatchesRemote(finalFile)

\* C3 as amended: the corrupt file and its sidecar are gone before any request
\* is sent; the requests of the first pass carry no Range header unless a
\* .part file was found; a successful return leaves a final file whose digest
\* matches the remote and the sidecar, a failed one leaves no final file.
C3_Amended ==
  corrupt =>
    /\ (requests = 0 => ~finalFile.ex /\ ~sidecar.ex)
    /\ (i = 0 /\ partSize = 0 => rangeReqs = 0)
    /\ (pc = "done" /\ result.ok =>
          /\ requests >= 1
          /\ finalFile.ex
          /\ DigestMatchesRemote(finalFile)
          /\ SidecarIsDigestOf(finalFile))
    /\ (pc = "done" /\ ~result.ok => ~finalFile.ex)

C3_Witness ==
  /\ pc = "done"
  /\ corrupt
  /\ result.ok
  /\ requests = 1
  /\ rangeReqs = 0
  /\ finalFile = FileOf(S_ab)

\* The precondition of the fast path, in the words of the claim.
C4_SkipCondition ==
  /\ finalFile.ex
  /\ Len(finalFile.data) > 0
  /\ DigestMatchesRemote(finalFile)
  /\ (sidecar.ex => SidecarIsDigestOf(finalFile))

C4_FastPath ==
  (pc = "start" /\ C4_SkipCondition) =>
    /\ pc' = "done"
    /\ result'.ok
    /\ requests' = 0
    /\ finalFile' = finalFile
    /\ sidecar' = SidecarOf(computeFileDigest(finalFile))

\* C4 as stated: the fast path returns success without a request, keeps the
\* bytes and leaves the sidecar; and a call after any successful call sends
\* no request.
C4_Original ==
  /\ [][C4_FastPath]_vars
  /\ [](prevCall \in {"ok", "ok_empty"} => requests = 0)

\* C4 as amended: the same, for a call after a successful call that left a
\* non-empty final file.
C4_Amended ==
  /\ [][C4_FastPath]_vars
  /\ [](prevCall = "ok" => requests = 0 /\ pc \in {"start", "done"})

C4_Witness ==
  /\ prevCall = "ok"
  /\ pc = "done"
  /\ result.ok
  /\ requests = 0
  /\ calls = 2

\* An HTML answer, in the words of the claim.
C5_IsHTML(r) ==
  \/ Contains(ToLower(r.ctype), S_texthtml)
  \/ HasPrefix(ToLower(TrimLeft(r.body)), S_lt_html)
  \/ HasPrefix(ToLower(TrimLeft(r.body)), S_lt_doctype)

C5_FailsAsHTML ==
  /\ pc' = "loop"
  /\ attemptErr' = "unexpected HTML response body"
  /\ partFile' = partFile
  /\ finalFile' = finalFile

C6_Cap == IF maxRetries > 1 THEN maxRetries ELSE 1

\* A measure of the work left in the current call.
C6_Measure ==
  IF pc = "done" THEN 0
  ELSE (C6_Cap - i) * (C6_Cap + 5) + 1 +
       (CASE pc = "start" -> C6_Cap + 5
          [] pc = "loop" -> C6_Cap + 4
          [] pc = "request" -> C6_Cap + 3 - reqI
          [] pc = "response" -> 2
          [] pc = "written" -> 1
          [] OTHER -> 0)

\* C6: whatever the server does, a call makes at most max(1, maxRetries)
\* passes, each with at most max(1, maxRetries) HTTP requests, and every step
\* of a call brings it closer to its return.
C6_RetriesCapped ==
  /\ [](/\ i <= C6_Cap
        /\ reqI <= C6_Cap
        /\ requests <= C6_Cap * C6_Cap
        /\ (pc \in {"request", "response", "written", "renamed"} => i < C6_Cap)
        /\ C6_Measure >= 0)
  /\ [][pc # "done" => C6_Measure' < C6_Measure]_vars

C6_Witness ==
  /\ pc = "done"
  /\ ~result.ok
  /\ maxRetries = 2
  /\ i = 2
  /\ requests = 4

\* C7: the error returned after the last pass wraps what that pass failed
\* with; it is never the bare retry-limit error.
C7_ExhaustedErrorWrapsLastFailure ==
  (pc = "done" /\ result.returned /\ ~result.ok) =>
    /\ result.msg = "exceeded retry limit"
    /\ result.cause # ErrNil
    /\ result.cause = attemptErr

C7_Witness ==
  /\ pc = "done"
  /\ ~result.ok
  /\ maxRetries = 2
  /\ result.cause = "md5 mismatch"

\* ========================================================================
\* Claims about FetchWithRetry (FetchSpec)
\* ========================================================================
\* The error the loop keeps for a request that got no 2xx or 4xx answer.
C8_ErrorOf(o) ==
  IF o = 0 THEN [class |-> "network", status |-> 0] ELSE [class |-> "server", status |-> o]

\* C8: one call sends at most MaxRetries+1 requests; when every request ends
\* in a network error or a 5xx answer it sends exactly MaxRetries+1 and
\* returns an error carrying the last of these errors and the retry count.
C8_RequestsCapped ==
  /\ fetchRequests <= MaxRetries + 1
  /\ Len(outcomes) = fetchRequests
  /\ (/\ fetchPc = "done"
      /\ outcomes # << >>
      /\ \A k \in 1..Len(outcomes) : outcomes[k] = 0 \/ outcomes[k] >= 500) =>
        /\ fetchRequests = MaxRetries + 1
        /\ fetchResult.kind = "exhausted"
        /\ fetchResult.retries = MaxRetries
        /\ fetchResult.cause = C8_ErrorOf(outcomes[Len(outcomes)])

C8_Witness ==
  /\ fetchPc = "done"
  /\ MaxRetries = 2
  /\ outcomes = <<0, 500, 503>>
  /\ fetchResult.kind = "exhausted"
  /\ fetchResult.cause = [class |-> "server", status |-> 503]

\* C9: the first 4xx answer ends the call with an error and the first 2xx
\* answer ends it with that answer; no request follows either of them.
C9_FinalStatusEndsCall ==
  \A k \in 1..Len(outcomes) :
    (outcomes[k] >= 200 /\ outcomes[k] < 300) \/ (outcomes[k] >= 400 /\ outcomes[k] < 500) =>
      /\ k = Len(outcomes)
      /\ fetchRequests = k
      /\ fetchPc = "done"
      /\ (outcomes[k] < 300 =>
            fetchResult.kind = "response" /\ fetchResult.status = outcomes[k])
      /\ (outcomes[k] >= 400 =>
            /\ fetchResult.kind = "error"
            /\ fetchResult.cause = [class |-> "http", status |-> outcomes[k]])

C9_Witness ==
  /\ fetchPc = "done"
  /\ MaxRetries = 2
  /\ outcomes = <<500, 404>>
  /\ fetchResult.kind = "error"
  /\ fetchRequests = 2

\* ========================================================================
\* Claims about fetchPagesConcurrently (PagesSpec)
\* ========================================================================
\* C10: whatever the order in which the workers finish, the call returns
\* page 1 followed by exactly the pages of 2..totalPages that were fetched
\* and parsed, in ascending page number, and no error, also when pages failed.
C10_SucceededPagesInOrder ==
  pagesPc = "returned" =>
    /\ ~pagesErr
    /\ okPages \subseteq 2..totalPages
    /\ Len(validParsers) = Cardinality(okPages) + 1
    /\ validParsers[1] = ParserOf(1)
    /\ \A k \in 2..Len(validParsers) : validParsers[k].ex /\ validParsers[k].of \in okPages
    /\ \A k \in 1..(Len(validParsers) - 1) : validParsers[k].of < validParsers[k + 1].of

C10_Witness ==
  /\ pagesPc = "returned"
  /\ totalPages = 4
  /\ arrivals = <<3, 4, 2>>
  /\ okPages = {2, 4}
  /\ validParsers = <<ParserOf(1), ParserOf(2), ParserOf(4)>>

\* C11: in strict mode, when a page of 2..totalPages failed, the result is an
\* error that lists exactly the failed pages, each once, and no parsers; with
\* no failed page, or outside strict mode, there is no error.
C11_StrictListsMissingPages ==
  pagesPc = "returned" =>
    LET failed == (2..totalPages) \ okPages
    IN  /\ (strict /\ failed # {}) =>
              /\ pagesErr
              /\ validParsers = << >>
              /\ {missingListed[k] : k \in 1..Len(missingListed)} = failed
              /\ Len(missingListed) = Cardinality(failed)
        /\ (~strict \/ failed = {}) => ~pagesErr /\ missingListed = << >>

C11_Witness ==
  /\ pagesPc = "returned"
  /\ strict
  /\ totalPages = 4
  /\ okPages = {2}
  /\ pagesErr
  /\ missingListed = <<4, 3>>
  /\ validParsers = << >>

\* The page fetches in flight: the workers inside FetchPostWithPage.
C12_InFlight == Cardinality({w \in Workers : wstate[w] = "fetch"})

\* C12: the page fetches in flight never exceed min(MaxConcurrent, NumCPU),
\* taken as 1 when that is below 1: with MaxConcurrent zero or negative
\* exactly one worker runs.
C12_InFlightWithinBudget ==
  pagesPc # "off" =>
    /\ C12_InFlight <= Max(1, Min(maxConcurrent, numCPU))
    /\ (maxConcurrent <= 0 => numWorkers = 1 /\ C12_InFlight <= 1)

C12_Witness ==
  /\ numCPU = 2
  /\ maxConcurrent = 2
  /\ totalPages = 4
  /\ C12_InFlight = 2

\* ========================================================================
\* Claims about the CookieManager (CookieRaceSpec, CookieSpec, LookupSpec)
\* ========================================================================
\* C13: when the workers are done the store has at most one entry per name,
\* domain and path, every key a worker wrote is there with the cookie of one
\* of its writers, and no lookup has read an entry that is neither an entry
\* of the store at the start nor the cookie of a worker.
C13_UpdatesAppliedOneAtATime ==
  /\ \A e \in seen : e \in {RaceStore[k] : k \in 1..Len(RaceStore)} \cup
                              {gcookie[g] : g \in Goroutines}
  /\ (\A g \in Goroutines : gpc[g] = "done") =>
        /\ \A j, k \in 1..Len(jar) : sameKey(jar[j], jar[k]) => j = k
        /\ \A g \in Goroutines :
             \E k \in 1..Len(jar) :
               /\ sameKey(jar[k], gcookie[g])
               /\ jar[k] \in {gcookie[h] : h \in Goroutines}

\* C14: from an empty store, after any sequence of AddCookie and
\* UpdateFromResponse no two entries of the store have the same name, domain
\* and path; an AddCookie with a key of the store replaces that entry where
\* it is and keeps the number of entries, an AddCookie with a new key appends
\* one entry.
C14_Hits == {k \in 1..Len(jarBefore) : sameKey(jarBefore[k], cookieRet.arg[1])}
C14_UpsertKeepsKeysUnique ==
  /\ \A p, q \in 1..Len(jar) : sameKey(jar[p], jar[q]) => p = q
  /\ cookieRet.op = "AddCookie" =>
       IF C14_Hits # {}
       THEN /\ Len(jar) = Len(jarBefore)
            /\ \A k \in 1..Len(jar) :
                 jar[k] = IF k \in C14_Hits THEN cookieRet.arg[1] ELSE jarBefore[k]
       ELSE jar = Append(jarBefore, cookieRet.arg[1])
C14_Witness ==
  /\ cookieRet.op = "AddCookie"
  /\ Len(jarBefore) = 2
  /\ C14_Hits = {1}
  /\ jar[1] # jarBefore[1]
  /\ \E k \in 1..Len(jar) : jar[k].Domain = D_dot_ex

\* What a lookup was asked and what it kept: the URL, and the positions of
\* the store whose entries meet a condition.
C15_URL == cookieRet.arg[1]
C15_NotExpired(c) == c.Expires = 0 \/ c.Expires >= now
C15_SecureOK(c) == c.Secure => C15_URL.Scheme = "https"
C15_DomainAsStated(c) ==
  \/ c.Domain = C15_URL.Host
  \/ /\ c.Domain # << >>
     /\ Head(c.Domain) = "."
     /\ \/ C15_URL.Host = Tail(c.Domain)
        \/ HasSuffix(C15_URL.Host, c.Domain)
C15_PathAsStated(c) ==
  \/ c.Path = << >>
  \/ c.Path = P_root
  \/ HasPrefix(C15_URL.Path, c.Path)
C15_PathWithSlash(c) ==
  \/ C15_PathAsStated(c)
  \/ Head(c.Path) # "/" /\ HasPrefix(C15_URL.Path, P_root \o c.Path)
C15_SubdomainExample ==
  \A k \in 1..Len(jar) :
    jar[k].Domain = D_dot_ex =>
      /\ C15_URL.Host = H_other =>
           \A m \in 1..Len(cookieRet.out) : cookieRet.out[m] # jar[k]
      /\ (/\ C15_URL = ParsedURL("https", H_sub, P_x)
          /\ C15_NotExpired(jar[k])) =>
           \E m \in 1..Len(cookieRet.out) : cookieRet.out[m] = jar[k]

\* C15 as stated: GetCookiesForURL returns, in the order of the store,
\* exactly the entries whose domain equals the host or is a dot-domain of it,
\* whose path is empty, "/" or a prefix of the URL path, whose secure flag
\* implies https and which are not expired.
C15_Original ==
  (cookieRet.op = "GetCookiesForURL" /\ C15_URL.ok) =>
    /\ cookieRet.out =
         SelectSeq(jar, LAMBDA c : /\ C15_DomainAsStated(c)
                                   /\ C15_PathAsStated(c)
                                   /\ C15_SecureOK(c)
                                   /\ C15_NotExpired(c))
    /\ C15_SubdomainExample

\* C15 amended: an entry with an empty domain matches every host, and a
\* cookie path without a leading slash is compared with the slash put in
\* front of it; a URL that does not parse gets no cookie.
C15_Amended ==
  cookieRet.op = "GetCookiesForURL" =>
    IF ~C15_URL.ok THEN cookieRet.out = << >>
    ELSE /\ cookieRet.out =
              SelectSeq(jar, LAMBDA c : /\ c.Domain = << >> \/ C15_DomainAsStated(c)
                                        /\ IF c.Path # << >> /\ Head(c.Path) # "/"
                                           THEN HasPrefix(C15_URL.Path, P_root \o c.Path)
                                           ELSE C15_PathAsStated(c)
                                        /\ C15_SecureOK(c)
                                        /\ C15_NotExpired(c))
         /\ C15_SubdomainExample
C15_Witness ==
  /\ cookieRet.op = "GetCookiesForURL"
  /\ C15_URL = ParsedURL("https", H_sub, P_x)
  /\ Len(jar) = 2
  /\ jar[1].Domain = << >>
  /\ jar[2].Domain = D_dot_ex
  /\ cookieRet.out = jar

\* C16: for every store and every http URL, GetCookiesForURL returns no
\* entry whose secure flag is set.
C16_NoSecureCookieOverHttp ==
  (cookieRet.op = "GetCookiesForURL" /\ cookieRet.arg[1].ok /\ cookieRet.arg[1].Scheme = "http") =>
    \A m \in 1..Len(cookieRet.out) : ~cookieRet.out[m].Secure
C16_Witness ==
  /\ cookieRet.op = "GetCookiesForURL"
  /\ cookieRet.arg[1] = ParsedURL("http", H_ex, P_x)
  /\ \E k \in 1..Len(jar) : jar[k].Secure /\ isCookieApplicable(jar[k], ParsedURL("https", H_ex, P_x), now)
  /\ Len(cookieRet.out) = 1

\* C17: right after SaveToFile the file holds exactly the entries of the
\* store that were not expired at the save and the store holds no expired
\* entry; right after LoadFromFile the store holds no expired entry either.
C17_NoneExpired(cookies) == \A k \in 1..Len(cookies) : ~isExpired(cookies[k], now)
C17_SaveSnapshot ==
  cookieRet.op = "SaveToFile" =>
    /\ cookieFile.ex /\ cookieFile.kind = "toml"
    /\ tomlUnmarshal(cookieFile.cookies) =
         SelectSeq(jarBefore, LAMBDA c : c.Expires = 0 \/ c.Expires >= now)
    /\ C17_NoneExpired(jar)
C17_LoadPruned ==
  cookieRet.op = "LoadFromFile" => C17_NoneExpired(jar)
C17_SnapshotAfterSaveAndLoad == C17_SaveSnapshot /\ C17_LoadPruned

\* The entries of the first load that are not expired at the second load.
C18_StillValid == SelectSeq(trip.first, LAMBDA c : c.Expires = 0 \/ c.Expires >= now)
C18_AsSet(cookies) == {cookies[k] : k \in 1..Len(cookies)}
C18_SecondLoad == cookieRet.op = "LoadFromFile" /\ trip.stage = 3

C19_UnparseableFileGivesEmptyStore ==
  (cookieRet.op = "LoadFromFile" /\ cookieRet.arg = <<"garbage">>) =>
    /\ ~cookieRet.err
    /\ backups >= 1
    /\ jar = << >>
    /\ cookieFile.ex /\ cookieFile.kind = "toml"

\* ------------------------------------------------------------------------
\* Claims about the request a fetch attempt sends (RequestSpec)
\* ------------------------------------------------------------------------
\* The parts of a Cookie header, as a server splits it at "; ".
RECURSIVE C20_Segments(_)
C20_Segments(h) ==
  LET cuts == {k \in 1..(Len(h) - 1) : h[k] = ";" /\ h[k + 1] = " "}
  IN  IF h = << >> THEN << >>
      ELSE IF cuts = {} THEN <<h>>
      ELSE LET k == CHOOSE c \in cuts : \A d \in cuts : c <= d
           IN  <<SubSeq(h, 1, k - 1)>> \o C20_Segments(SubSeq(h, k + 2, Len(h)))
C20_Sent == C20_Segments(reqCookieHeader)
C20_OnWire(v) ==
  LET kept == SelectSeq(v, LAMBDA ch : ch \notin {";", "\"", "\\"})
  IN  IF \E k \in 1..Len(kept) : kept[k] \in {" ", ","} THEN <<"\"">> \o kept \o <<"\"">> ELSE kept
C20_NameOnWire(n) == [k \in 1..Len(n) |-> IF n[k] \in {"\n", "\r"} THEN "-" ELSE n[k]]
C20_Built == cookieRet.op = "doRequest" /\ enableCookie

\* C20 as stated: the Cookie header of an attempt holds one name=value pair
\* for each cookie GetCookiesForURL returned and nothing else, no attribute
\* of a stored cookie.
C20_Original ==
  C20_Built =>
    C20_Sent = [k \in 1..Len(cookieRet.out) |->
                  cookieRet.out[k].Name \o <<"=">> \o cookieRet.out[k].Value]

\* C20 amended: the pairs follow the value of a Cookie custom header when one
\* is configured, and name and value are sent as net/http sanitizes them;
\* with cookies switched off only the custom header is sent.
C20_Amended ==
  cookieRet.op = "doRequest" =>
    C20_Sent =
      (IF customCookie = << >> THEN << >> ELSE <<customCookie>>) \o
      (IF enableCookie
       THEN [k \in 1..Len(cookieRet.out) |->
               C20_NameOnWire(cookieRet.out[k].Name) \o <<"=">> \o C20_OnWire(cookieRet.out[k].Value)]
       ELSE << >>)
C20_Witness ==
  /\ C20_Built
  /\ customCookie = << >>
  /\ Len(cookieRet.out) = 2
  /\ cookieRet.out[1].HttpOnly /\ cookieRet.out[1].Secure
  /\ cookieRet.out[2].Domain = D_dot_ex
  /\ Len(C20_Sent) = 2

\* ------------------------------------------------------------------------
\* Claims about GofileHandler's batches (BatchSpec, RecordSpec, TreeSpec)
\* ------------------------------------------------------------------------
\* C21: with skip-existing on and a file somewhere below the content
\* directory of every URL of the batch, downloadBatch returns nil and sends
\* no request: no token request, no content request, no file download.
C21_AllPopulated ==
  \A k \in 1..Len(urls) :
    urls[k].matched /\ listFilesRecursive(gdirs[urls[k].id]) # {}
C21_SkipSendsNothing ==
  [][(bpc = "start" /\ skipExisting /\ C21_AllPopulated) =>
       (/\ bpc' = "returned" /\ bret' = "nil"
        /\ batchRequests' = 0 /\ attempted' = {}
        /\ hasToken' = hasToken /\ gdirs' = gdirs)]_vars
C21_Witness ==
  /\ bpc = "returned" /\ bret = "nil"
  /\ skipExisting /\ ~hasToken
  /\ Len(urls) = 2
  /\ gdirs["a"] = D_deepFile /\ gdirs["b"] = D_file
  /\ urls[2] = URL_b
  /\ batchRequests = 0 /\ attempted = {}

\* C22: in the loop of downloadBatch a failure on one URL or file is added
\* to the collected errors and the loop goes on: every URL of the batch is
\* processed before the call returns, and it returns the join of the
\* collected errors, nil when there are none.
C22_IsPrefix(s, t) == Len(s) <= Len(t) /\ SubSeq(t, 1, Len(s)) = s
C22_FailuresDoNotStop ==
  [][/\ (bpc = "loop" /\ bidx <= Len(urls)) =>
          /\ bpc' = "loop" /\ bidx' = bidx + 1 /\ attempted' = attempted \cup {bidx}
          /\ C22_IsPrefix(berrs, berrs')
          /\ ~urls[bidx].matched =>
                berrs' = Append(berrs, [kind |-> "invalid", url |-> urls[bidx].raw, file |-> ""])
          /\ \A f \in {"f.part", "g.part"} :
                (urls[bidx].matched /\ f \in gdirs'[urls[bidx].id].files
                   /\ f \notin gdirs[urls[bidx].id].files) =>
                  \E k \in (Len(berrs) + 1)..Len(berrs') :
                    berrs'[k].kind = "download" /\ berrs'[k].url = urls[bidx].raw
     /\ (bpc = "loop" /\ bpc' = "returned") =>
          /\ attempted = 1..Len(urls)
          /\ berrs' = berrs
          /\ bret' = IF berrs = << >> THEN "nil" ELSE "joined"]_vars
C22_Witness ==
  /\ bpc = "returned" /\ bret = "joined"
  /\ Len(urls) = 2 /\ attempted = {1, 2}
  /\ urls[1] = URL_a /\ urls[2] = URL_b
  /\ Len(berrs) = 1 /\ berrs[1].kind = "download" /\ berrs[1].file = "f"
  /\ gdirs["a"].files = {"f.part", "g"} /\ "f" \in gdirs["b"].files

\* C25: after any sequence of batches post.GofileFiles holds at most one
\* record per share URL; processing a URL again replaces its record where it
\* is, keeps the number of records and leaves the records of other URLs as
\* they were.
C25_BatchURLs == {urls[k].raw : k \in {j \in 1..Len(urls) : urls[j].matched}}
C25_KnownURLs == {recordsBefore[k].URL : k \in 1..Len(recordsBefore)}
C25_OneRecordPerURL ==
  /\ \A p, q \in 1..Len(records) : records[p].URL = records[q].URL => p = q
  /\ bpc = "collected" =>
       /\ Len(records) = Len(recordsBefore) + Cardinality(C25_BatchURLs \ C25_KnownURLs)
       /\ \A k \in 1..Len(recordsBefore) :
            /\ records[k].URL = recordsBefore[k].URL
            /\ recordsBefore[k].URL \notin C25_BatchURLs => records[k] = recordsBefore[k]
C25_Witness ==
  /\ bpc = "collected" /\ batches = 2
  /\ Len(recordsBefore) = 2 /\ Len(records) = 2
  /\ records[1].URL = recordsBefore[1].URL
  /\ records[1] # recordsBefore[1]
  /\ records[2] = recordsBefore[2]
  /\ records[1].ContentID = records[2].ContentID

\* C26: a record built after a batch has Downloaded set exactly when a file
\* exists below its content directory and Error "download_failed" exactly
\* when none does, and LocalFiles names every file below that directory; a
\* URL gets a local path only when its record has Downloaded set.
C26_PathsBelow(dir) ==
  {<<f>> : f \in dir.files} \cup
  UNION {{<<k, f>> : f \in dir.dirs[k].files} : k \in 1..Len(dir.dirs)}
C26_RecordsMatchDisk ==
  /\ bpc = "collected" =>
       \A k \in 1..Len(records) :
         LET r == records[k]
             dir == gdirs[r.ContentID]
         IN  /\ r.Downloaded <=> dirHasFiles(dir)
             /\ (r.Error = "download_failed") <=> ~dirHasFiles(dir)
             /\ r.LocalFiles = IF dir.ex THEN C26_PathsBelow(dir) ELSE {}
  /\ bpc \in {"collected", "annotated"} =>
       \A m \in mapping :
         \E k \in 1..Len(records) : records[k].URL = m[1] /\ records[k].Downloaded
C26_Witness ==
  /\ bpc = "collected"
  /\ Len(records) = 2
  /\ records[1].Downloaded /\ records[1].LocalFiles = {<<2, "old">>}
  /\ records[2].Error = "download_failed" /\ gdirs[records[2].ContentID].ex
  /\ Cardinality(mapping) = 1
  /\ bret = "joined"

\* C23: the local paths that the resolution of one share URL produces are
\* pairwise distinct, whatever the names of the children.
C23_PathsDistinct ==
  tret = "ok" =>
    \A p, q \in 1..Len(tfiles) : tfiles[p] = tfiles[q] => p = q

\* C24: when a protected node fails, the files of the siblings resolved
\* before it are in the result of the resolution and are downloaded.
C24_FilesBefore ==
  {k \in 1..Len(ttree.Children) :
     /\ ttree.Children[k].Type = "file"
     /\ \E l \in (k + 1)..Len(ttree.Children) : ttree.Children[l].Locked
     /\ \A j \in 1..k : ~ttree.Children[j].Locked}
C24_SiblingsKept ==
  /\ tpc # "start" => Len(tfiles) >= Cardinality(C24_FilesBefore)
  /\ tpc = "done" => Cardinality(tdisk) >= IF C24_FilesBefore = {} THEN 0 ELSE 1

\* ========================================================================
\* Claims about resumed downloads (DownloadSpec)
\* ========================================================================
\* C27: with a .part file of N bytes and a 206 answer to a request with
\* Range: bytes=N-, the attempt appends the body to the .part file and the
\* file it renames to the final path is the N old bytes followed by the
\* body; without Content-Range the expected total is N + Content-Length,
\* and without both headers nothing is expected and the attempt succeeds.
C27_Resuming ==
  /\ pc = "response"
  /\ resp.status = 206
  /\ partFile.ex
  /\ partSize > 0
  /\ Len(partFile.data) = partSize
  /\ rangeHdr = partSize
C27_ResumeAppends ==
  [][ /\ (C27_Resuming /\ pc' = "written") =>
           /\ partFile'.data = partFile.data \o resp.body
           /\ (~resp.crange.present /\ resp.clen.present) =>
                expect' = [size |-> partSize + resp.clen.text.n, has |-> TRUE]
           /\ (~resp.crange.present /\ ~resp.clen.present) => ~expect'.has
      /\ (pc = "written" /\ ~expect.has) => pc' = "renamed"
      /\ (pc = "written" /\ pc' = "renamed") =>
           /\ finalFile' = partFile
           /\ ~partFile'.ex
      /\ (pc = "renamed" /\ validateDigestAgainstRemote(computeFileDigest(finalFile), file) = ErrNil) =>
           /\ result'.returned /\ result'.ok
           /\ finalFile' = finalFile
    ]_vars
C27_Witness ==
  /\ pc = "renamed"
  /\ resp.status = 206
  /\ ~resp.crange.present /\ resp.clen.present
  /\ rangeHdr = 1 /\ partSize = 1
  /\ expect = [size |-> 2, has |-> TRUE]
  /\ finalFile = FileOf(S_ab)
  /\ ~partFile.ex

\* C30: the final path never holds downloaded bytes that do not pass the
\* validation against the remote-declared size and MD5, the states between
\* the rename and the validation included.
C30_FinalHoldsOnlyValidatedBytes ==
  pc = "renamed" =>
    validateDigestAgainstRemote(computeFileDigest(finalFile), file) = ErrNil

\* ========================================================================
\* Claims about the decoding of API answers (ApiSpec)
\* ========================================================================
\* C28: an API body is decoded as gzip when Content-Encoding names gzip or
\* the body starts with the bytes 1f 8b (whatever the header says), and as
\* plain JSON otherwise; a body that cannot be decoded gives an error and no
\* data.
C28_NamesGzip == apiResp.enc \in {H_gzip, H_GZIP, H_list}
C28_Magic ==
  /\ Len(apiResp.body) >= 2
  /\ apiResp.body[1] = "1f"
  /\ apiResp.body[2] = "8b"
C28_GzipByHeaderOrContent ==
  (apc = "done" /\ apiResp.status = 200) =>
    /\ apiRet.gzip <=> (C28_NamesGzip \/ C28_Magic)
    /\ apiResp.body = Gzip(J_ok) => (apiRet.err = ErrNil /\ apiRet.data = "content")
    /\ (apiResp.body = J_ok /\ ~C28_NamesGzip) =>
         (apiRet.err = ErrNil /\ apiRet.data = "content")
    /\ apiRet.err = ErrNil =>
         \/ apiResp.body = J_ok /\ ~C28_NamesGzip
         \/ apiResp.body \in {Gzip(J_ok), GzipMagic \o J_ok}
    /\ apiRet.err # ErrNil => apiRet.data = ""
C28_Witness ==
  /\ apc = "done"
  /\ apiResp = [status |-> 200, enc |-> H_br, body |-> Gzip(J_ok)]
  /\ apiRet = [err |-> ErrNil, data |-> "content", gzip |-> TRUE]

\* ========================================================================
\* Claims about ImageHandler (ImgSpec)
\* ========================================================================
C29_Listed(u, images) ==
  \E k \in 1..Len(images) :
    images[k].URL = u /\ images[k].Downloaded /\ images[k].Local # ""
C29_DownloadedNow(u) ==
  \E k \in (Len(ipostBefore) + 1)..Len(ipost) : ipost[k].URL = u

\* C29 as stated: a URL that an earlier call mapped is not rewritten by a
\* later call whose post does not list it.
C29_Original ==
  ipc = "returned" =>
    \A k \in 1..Len(idoc) :
      (idoc[k].name \in iprev /\ ~C29_Listed(idoc[k].name, ipostBefore)) =>
        iout[k] = idoc[k]

\* C29, amended: the returned document is determined by the document, the
\* post and the downloads of the call itself: a remote URL is rewritten
\* exactly when the post lists it as downloaded or this call downloaded it;
\* with downloading off nothing is downloaded, so a URL that only an earlier
\* call mapped stays as it is.
C29_Amended ==
  ipc = "returned" =>
    /\ Len(iout) = Len(idoc)
    /\ ~idownload => ipost = ipostBefore
    /\ \A k \in 1..Len(ipostBefore) : ipost[k] = ipostBefore[k]
    /\ \A k \in 1..Len(idoc) :
         LET u == idoc[k].name
         IN  IF isRemoteURL(u) /\ C29_Listed(u, ipostBefore)
               THEN /\ iout[k].dir = "images"
                    /\ \E j \in 1..Len(ipostBefore) :
                         /\ ipostBefore[j].URL = u
                         /\ ipostBefore[j].Downloaded
                         /\ ipostBefore[j].Local = iout[k].name
             ELSE IF isRemoteURL(u) /\ C29_DownloadedNow(u)
               THEN idownload /\ iout[k] = CachedDest("images", CacheFileName(u))
             ELSE iout[k] = idoc[k]
C29_Witness ==
  /\ ipc = "returned"
  /\ icalls = 2
  /\ ~idownload
  /\ Len(idoc) = 2
  /\ idoc[1].name \in iprev
  /\ ~C29_Listed(idoc[1].name, ipostBefore)
  /\ iout[1] = idoc[1]
  /\ iout[2] = CachedDest("images", "two.jpg")

\* ========================================================================
\* Claims about the retry after a failed validation (DownloadSpec)
\* ========================================================================
\* C31: after an attempt whose bytes failed the validation, the next attempt
\* takes its resume offset from the bytes on disk: its request carries no
\* Range header when no .part file remains.
C31_OffsetFromDisk ==
  (pc = "request" /\ attemptErr \in {"size mismatch", "md5 mismatch"} /\ ~partFile.ex) =>
    rangeHdr = 0

\* ========================================================================
\* Claims about the worker pool of fetchPagesConcurrently
\* (PagesFairSpec, PagesSpec)
\* ========================================================================
\* The order of the shutdown: tasks is closed after the last page was
\* enqueued, results after the last worker left, the return after that.
C32_ShutdownInOrder ==
  /\ tasksClosed => page > totalPages
  /\ resultsClosed =>
       /\ tasksClosed /\ tasks = << >>
       /\ wg = 0
       /\ \A w \in Workers : wstate[w] = "exit"
  /\ pagesPc = "returned" => (resultsClosed /\ results = << >>)

\* C32: for every totalPages >= 2 and every outcome of the page fetches the
\* call returns, with the shutdown in that order: no goroutine of the pool
\* blocks for ever.
C32_PoolTerminates ==
  /\ []C32_ShutdownInOrder
  /\ <>(pagesPc = "returned")
C32_Witness ==
  /\ pagesPc = "returned"
  /\ totalPages = 4
  /\ numWorkers = 2
  /\ okPages = {3}
  /\ \A w \in Workers : wstate[w] = "exit"
  /\ tasksClosed /\ resultsClosed

\* How often page p is somewhere in the pool: in tasks, with a worker, in
\* results, or already received by the caller.
C33_Count(p) ==
  Cardinality({k \in 1..Len(tasks) : tasks[k] = p})
    + Cardinality({w \in Workers : wstate[w] \in {"fetch", "send"} /\ wresult[w].Page = p})
    + Cardinality({k \in 1..Len(results) : results[k].Page = p})
    + Cardinality({k \in 1..Len(arrivals) : arrivals[k] = p})

\* C33: each page of 2..totalPages is taken by one worker and gives one
\* result; none is fetched twice or left out, page 1 is not fetched by the
\* pool, and a result is written to the slot of its own page only.
C33_EachPageOnce ==
  pagesPc # "off" =>
    /\ \A p \in 1..totalPages :
         C33_Count(p) = IF p >= 2 /\ p < page THEN 1 ELSE 0
    /\ \A w \in Workers : wstate[w] \in {"recv", "exit"} => wresult[w] = NoPageResult
    /\ pageParsers[0] = ParserOf(1)
    /\ \A k \in 1..(totalPages - 1) :
         pageParsers[k].ex =>
           /\ pageParsers[k] = ParserOf(k + 1)
           /\ k + 1 \in okPages
    /\ pagesPc = "returned" =>
         /\ Len(arrivals) = totalPages - 1
         /\ \A p \in 2..totalPages : \E k \in 1..Len(arrivals) : arrivals[k] = p
C33_Witness ==
  /\ pagesPc = "returned"
  /\ totalPages = 4
  /\ numWorkers = 2
  /\ arrivals = <<3, 2, 4>>
  /\ okPages = {2, 3, 4}
  /\ pageParsers = <<ParserOf(2), ParserOf(3), ParserOf(4)>> @@ (0 :> ParserOf(1))

\* ========================================================================
\* Claims about the start of a batch (RecordSpec, BatchSpec, TokenSpec)
\* ========================================================================
C36_Leftovers == {"f.part", "g.part", "f.north2md.digest.json"}
C36_OnlyLeftovers(dir) ==
  /\ dir.ex
  /\ C26_PathsBelow(dir) # {}
  /\ \A p \in C26_PathsBelow(dir) : p[Len(p)] \in C36_Leftovers

\* C36: with skip-existing on, a content directory that holds nothing but a
\* .part file or a digest sidecar counts as populated: the batch is skipped,
\* no request is sent and the directory stays as it is.
C36_LeftoversSkipBatch ==
  [][ ( /\ bpc = "start"
        /\ skipExisting
        /\ \A k \in 1..Len(urls) :
             /\ urls[k].matched
             /\ gdirs[urls[k].id].ex
             /\ C26_PathsBelow(gdirs[urls[k].id]) # {}
        /\ \E k \in 1..Len(urls) : C36_OnlyLeftovers(gdirs[urls[k].id]) )
      => ( /\ bpc' = "returned"
           /\ bret' = "nil"
           /\ batchRequests' = batchRequests
           /\ attempted' = {}
           /\ gdirs' = gdirs )
    ]_vars
C36_Witness ==
  /\ batches = 2
  /\ skipExisting
  /\ bpc = "returned" /\ bret = "nil"
  /\ batchRequests = 0
  /\ urls = <<URL_a>>
  /\ gdirs["a"] = Dir(TRUE, {"f.part"}, << >>)

\* C37: without a token, a failed acquisition ends downloadBatch with that
\* one error before any URL is processed: no content directory is created,
\* no content tree is requested, no file is downloaded.
C37_TokenFailureStopsBatch ==
  [][ /\ (bret # "token" /\ bret' = "token") =>
           /\ bpc = "start" /\ bpc' = "returned"
           /\ ~hasToken /\ ~hasToken'
           /\ batchRequests' = batchRequests + 1
           /\ gdirs' = gdirs
      /\ bret = "token" =>
           /\ berrs' = << >>
           /\ attempted' = {}
           /\ batchRequests' = 1
           /\ gdirs' = gdirs
           /\ bret' = "token"
    ]_vars
C37_Witness ==
  /\ bpc = "collected"
  /\ bret = "token"
  /\ ~hasToken
  /\ urls = <<URL_a, URL_b>>
  /\ attempted = {}
  /\ batchRequests = 1
  /\ ~gdirs["a"].ex /\ ~gdirs["b"].ex
  /\ Len(records) = 2 /\ records[1].Error = "download_failed"

\* C34, first part: a handler built with a token never asks for one and keeps
\* the token it was built with.
C34_ConfiguredNeverAsks ==
  TrimSpace(configToken) # << >> =>
    /\ accountRequests = 0
    /\ ghToken = configToken
    /\ tokCalls > 0 => tokRet = [token |-> configToken, err |-> "nil"]

\* C34, second part: at most one request ends with a token.
C34_AcquiredOnce == acquisitions <= 1

\* C34: the account token is requested only while the handler has none: a
\* handler built with a token never sends an account request, a step sends
\* one only when gh.token is blank, and once a token is held every later call
\* returns that token, every later download request carries it and no further
\* account request is sent.
C34_TokenAskedOnlyWhenMissing ==
  /\ []C34_ConfiguredNeverAsks
  /\ []C34_AcquiredOnce
  /\ [][ /\ accountRequests' # accountRequests => TrimSpace(ghToken) = << >>
         /\ TrimSpace(ghToken) # << >> =>
              /\ accountRequests' = accountRequests
              /\ ghToken' = ghToken
              /\ tokCalls' # tokCalls => tokRet' = [token |-> ghToken, err |-> "nil"]
              /\ authHeader' # authHeader => authHeader' = ghToken
     ]_vars

\* A failed request, then a successful one, then a call that reuses the token.
C34_Witness ==
  /\ configToken = Tok_none
  /\ tokCalls = 3
  /\ accountRequests = 2
  /\ acquisitions = 1
  /\ ghToken = Tok_t1
  /\ tokRet = [token |-> Tok_t1, err |-> "nil"]
  /\ authHeader = Tok_t1


\* ------------------------------------------------------------------------
\* Claims about what leaves the cookie store (StoreSpec)
\* ------------------------------------------------------------------------
\* The entry c has no entry of its name, domain and path in cookies.
C35_Gone(c, cookies) ==
  ~\E k \in 1..Len(cookies) :
     /\ cookies[k].Name = c.Name
     /\ cookies[k].Domain = c.Domain
     /\ cookies[k].Path = c.Path

C38_NoLogin(cookies) == \A k \in 1..Len(cookies) : cookies[k].Name # N_winduser

\* The last operation was a load of a cookie file that parsed and whose
\* entries, once the expired ones are dropped, hold no login cookie.
C38_LoadedWithoutLogin ==
  /\ cookieRet.op = "LoadFromFile"
  /\ cookieRet.arg = <<"toml">>
  /\ C38_NoLogin(CleanExpired(tomlUnmarshal(cookieFile.cookies), now))

C39_Retryable(o) == o # 0 /\ ~(o >= 200 /\ o < 300) /\ ~(o >= 400 /\ o < 500)

\* C39: an answer whose status is neither 2xx nor 4xx, a 1xx or a 3xx one as
\* much as a 5xx one, is kept as a server error and retried: the call returns
\* only 2xx answers, after such an answer it goes on to the next pass, and it
\* ends on such an answer only when its MaxRetries+1 passes are used up, with
\* the error of the exhausted retries that carries this server error.
C39_OtherStatusesAreRetried ==
  /\ [](/\ fetchResult.kind = "response" =>
             fetchResult.status >= 200 /\ fetchResult.status < 300
        /\ \A k \in 1..Len(outcomes) :
             C39_Retryable(outcomes[k]) =>
               /\ fetchResult.kind = "response" => fetchResult.status # outcomes[k]
               /\ k < Len(outcomes) \/ fetchPc = "loop" \/ fetchRequests = MaxRetries + 1
               /\ (k = Len(outcomes) /\ fetchPc = "done") =>
                    /\ attempt = MaxRetries + 1
                    /\ fetchResult.kind = "exhausted"
                    /\ fetchResult.cause = [class |-> "server", status |-> outcomes[k]])
  /\ [][ (outcomes' # outcomes /\ C39_Retryable(outcomes'[Len(outcomes')])) =>
           /\ fetchPc' = "loop"
           /\ attempt' = attempt + 1
           /\ fetchLastErr' = [class |-> "server", status |-> outcomes'[Len(outcomes')]]
           /\ fetchResult' = fetchResult
     ]_vars

\* A 3xx and a 1xx answer were retried and the third request got a 2xx one.
C39_Witness ==
  /\ fetchPc = "done"
  /\ MaxRetries = 2
  /\ outcomes = <<302, 101, 200>>
  /\ fetchResult.kind = "response"
  /\ fetchResult.status = 200


====
